---- MODULE Spec2Model ----
(***************************************************************************)
(* Model of the Singlish chatbot ML service (backend/ml-service).          *)
(*                                                                         *)
(* Part 1: the intent engine, models/intent_detector.py (IntentDetector):  *)
(* load_model, train, predict with its statistical and fuzzy strategies,   *)
(* the persisted artifact files and the context adjustment.                *)
(*                                                                         *)
(* Conventions.  A text is a sequence of one-character strings.  A         *)
(* confidence is an integer number of hundredths (100 is 1.0), so the      *)
(* thresholds 0.1, 0.5 and 0.6 are 10, 50 and 60 and the multipliers 1.2   *)
(* and 0.8 are *12/10 and *8/10.  A Python call that can raise returns a   *)
(* record whose field exc says whether it raised.                          *)
(***************************************************************************)
EXTENDS Integers, Sequences, FiniteSets, TLC

(***************************************************************************)
(* Bounds of the model.                                                    *)
(***************************************************************************)
\* Number of training runs (calls of train that get to line 196, from the
\* caller or from _train_default_model) in one behaviour.
MaxRuns == 2

(***************************************************************************)
(* Strings.                                                                *)
(***************************************************************************)
UpperAZ == <<"A","B","C","D","E","F","G","H","I","J","K","L","M",
             "N","O","P","Q","R","S","T","U","V","W","X","Y","Z">>
LowerAZ == <<"a","b","c","d","e","f","g","h","i","j","k","l","m",
             "n","o","p","q","r","s","t","u","v","w","x","y","z">>

\* str.lower() on one character.
LowerMap ==
  [c \in {UpperAZ[i] : i \in 1..26} |-> LowerAZ[CHOOSE i \in 1..26 : UpperAZ[i] = c]]
LowerChar(c) == IF c \in DOMAIN LowerMap THEN LowerMap[c] ELSE c

\* str.lower()
Lower(s) == [i \in 1..Len(s) |-> LowerChar(s[i])]

(***************************************************************************)
(* Evaluation.  Bind(v, F) is F(v) with v evaluated once: an operator's    *)
(* argument and a LET definition are evaluated anew at each use, which a   *)
(* bound variable is not.                                                  *)
(***************************************************************************)
Bind(v, F(_)) == CHOOSE r \in {F(x) : x \in {v}} : TRUE

\* The k-th smallest element of a set of numbers.
KthSmallest(S, k) == CHOOSE x \in S : Cardinality({y \in S : y < x}) = k - 1

\* The greatest and the smallest element of a non-empty set of numbers.
SetMax(S) == CHOOSE x \in S : \A y \in S : y <= x
SetMin(S) == CHOOSE x \in S : \A y \in S : x <= y

(***************************************************************************)
(* fuzz.ratio(s1, s2): fuzzywuzzy's ratio over difflib.SequenceMatcher.    *)
(* Indices are 1-based and the ranges alo..ahi, blo..bhi are inclusive.    *)
(***************************************************************************)
RECURSIVE CommonRun(_, _, _, _, _, _)
\* Length of the common run of a from i and b from j inside the ranges.
CommonRun(a, b, i, j, ahi, bhi) ==
  IF i > ahi \/ j > bhi THEN 0
  ELSE IF a[i] # b[j] THEN 0
  ELSE 1 + CommonRun(a, b, i + 1, j + 1, ahi, bhi)

\* SequenceMatcher.find_longest_match: the longest matching block; of the
\* longest ones the one that starts earliest in a, then earliest in b.
find_longest_match(a, b, alo, ahi, blo, bhi) ==
  Bind([p \in (alo..ahi) \X (blo..bhi) |-> CommonRun(a, b, p[1], p[2], ahi, bhi)],
       LAMBDA run :
         Bind(SetMax({run[p] : p \in DOMAIN run}),
              LAMBDA k :
                Bind(SetMin({p[1] : p \in {q \in DOMAIN run : run[q] = k}}),
                     LAMBDA i :
                       [i |-> i,
                        j |-> SetMin({p[2] : p \in {q \in DOMAIN run :
                                                      run[q] = k /\ q[1] = i}}),
                        k |-> k])))

RECURSIVE MatchedChars(_, _, _, _, _, _)
\* SequenceMatcher.get_matching_blocks, summed: the matched characters of
\* the longest block and, recursively, of the pieces left and right of it.
MatchedChars(a, b, alo, ahi, blo, bhi) ==
  IF alo > ahi \/ blo > bhi THEN 0
  ELSE Bind(find_longest_match(a, b, alo, ahi, blo, bhi),
            LAMBDA m :
              IF m.k = 0 THEN 0
              ELSE m.k
                   + MatchedChars(a, b, alo, m.i - 1, blo, m.j - 1)
                   + MatchedChars(a, b, m.i + m.k, ahi, m.j + m.k, bhi))

\* Python's round(): to the nearest integer, halves to the even one.
RoundHalfEven(num, den) ==
  LET q == num \div den
      r == num % den
  IN  IF 2 * r < den THEN q
      ELSE IF 2 * r > den THEN q + 1
      ELSE IF q % 2 = 0 THEN q ELSE q + 1

\* fuzz.ratio: 100 for equal strings, 0 when either is empty, otherwise
\* round(100 * 2*M/T) with M the matched characters and T the total length.
fuzz_ratio(s1, s2) ==
  IF s1 = s2 THEN 100
  ELSE IF Len(s1) = 0 \/ Len(s2) = 0 THEN 0
  ELSE RoundHalfEven(200 * MatchedChars(s1, s2, 1, Len(s1), 1, Len(s2)),
                     Len(s1) + Len(s2))

(***************************************************************************)
(* The seed catalog.                                                       *)
(***************************************************************************)
_load_default_intents ==
  <<
    [intent |-> "greeting", phrases |-> <<
        <<"k", "o", "h", "o", "m", "a", "d", "a">>,
        <<"k", "o", "h", "o", "m", "a", "d", "h", "a">>,
        <<"k", "o", "h", "o", "m", "d", "a">>,
        <<"h", "e", "l", "l", "o">>,
        <<"h", "i">>,
        <<"m", "a", "c", "h", "a", "n", " ", "k", "o", "h", "o", "m", "a", "d", "a">>,
        <<"a", "y", "u", "b", "o", "w", "a", "n">>,
        <<"k", "o", "h", "o", "m", "a", " ", "h", "a", "r", "i">> >>],
    [intent |-> "self_intro", phrases |-> <<
        <<"m", "a", "g", "e", " ", "n", "a", "m", "a">>,
        <<"m", "y", " ", "n", "a", "m", "e", " ", "i", "s">>,
        <<"i", "m">>,
        <<"i", " ", "a", "m">>,
        <<"m", "a", "m", "a">>,
        <<"m", "a", "m", "a", "i">>,
        <<"m", "a", "m", "a", "y", "i">> >>],
    [intent |-> "ask_name", phrases |-> <<
        <<"o", "y", "a", "g", "e", " ", "n", "a", "m", "a", " ", "m", "o", "k", "a", "k", "d", "a">>,
        <<"w", "h", "a", "t", "s", " ", "y", "o", "u", "r", " ", "n", "a", "m", "e">>,
        <<"w", "h", "o", " ", "a", "r", "e", " ", "y", "o", "u">>,
        <<"o", "y", "a", " ", "k", "a", "w", "d", "a">>,
        <<"o", "y", "a", "g", "e", " ", "n", "a", "m", "a">> >>],
    [intent |-> "how_are_you", phrases |-> <<
        <<"o", "y", "a", " ", "k", "o", "h", "o", "m", "a", "d", "a">>,
        <<"h", "o", "w", " ", "a", "r", "e", " ", "y", "o", "u">>,
        <<"o", "y", "a", "g", "e", " ", "h", "a", "l">>,
        <<"o", "y", "a", " ", "h", "a", "r", "i", " ", "h", "o", "n", "d", "a", " ", "n", "e", "d", "a">>,
        <<"o", "y", "a", " ", "h", "o", "n", "d", "a", "i", "d", "a">> >>],
    [intent |-> "goodbye", phrases |-> <<
        <<"b", "y", "e">>,
        <<"g", "o", "o", "d", "b", "y", "e">>,
        <<"g", "i", "y", "a">>,
        <<"m", "a", "t", "a", " ", "y", "a", "n", "n", "a", " ", "o", "n", "a">>,
        <<"s", "e", "e", " ", "y", "o", "u">>,
        <<"c", "a", "t", "c", "h", " ", "y", "o", "u", " ", "l", "a", "t", "e", "r">> >>],
    [intent |-> "thanks", phrases |-> <<
        <<"t", "h", "a", "n", "k", "s">>,
        <<"t", "h", "a", "n", "k", " ", "y", "o", "u">>,
        <<"s", "t", "u", "t", "i">>,
        <<"s", "t", "u", "t", "i", "y", "i">>,
        <<"b", "o", "h", "o", "m", "a", " ", "s", "t", "u", "t", "i">>,
        <<"t", "h", "a", "n", "k", "s", " ", "m", "a", "c", "h", "a", "n">> >>],
    [intent |-> "help", phrases |-> <<
        <<"h", "e", "l", "p">>,
        <<"h", "e", "l", "p", " ", "k", "a", "r", "a", "n", "n", "a">>,
        <<"m", "a", "t", "a", " ", "h", "e", "l", "p", " ", "k", "a", "r", "a", "n", "n", "a">>,
        <<"h", "e", "l", "p", " ", "m", "e">>,
        <<"m", "o", "k", "a", "k", " ", "k", "a", "r", "a", "n", "n", "e">> >>]
  >>


\* The catalog flattened in iteration order (lines 138-139): one entry per
\* (intent, phrase) pair.
RECURSIVE FlattenFrom(_)
FlattenFrom(n) ==
  IF n > Len(_load_default_intents) THEN << >>
  ELSE [p \in 1..Len(_load_default_intents[n].phrases) |->
          [intent |-> _load_default_intents[n].intent,
           phrase |-> _load_default_intents[n].phrases[p]]]
       \o FlattenFrom(n + 1)

CatalogPairs == FlattenFrom(1)

SeedLabels == {_load_default_intents[n].intent : n \in 1..Len(_load_default_intents)}

(***************************************************************************)
(* Inputs of predict.                                                      *)
(***************************************************************************)
\* A text argument: none says the caller passed None instead of a string.
Str(s) == [none |-> FALSE, s |-> s]
NoneText == [none |-> TRUE, s |-> << >>]

Texts ==
  { Str(<<"k","o","h","o","m","a","d","a">>),
    Str(<<"m","a","g","e"," ","n","a","m">>),
    Str(<<"O","y","a"," ","k","a","w","d","a">>),
    Str(<<"x","y","z">>),
    Str(<<"s","e","e">>),
    Str(<<"w","h","o","a">>),
    Str(<<"?","!">>),
    Str(<< >>),
    NoneText }

\* A context argument: present is the truth value of the dict (None and {}
\* are false); the fields are what context.get returns ("" for a missing key).
NoContext == [present |-> FALSE, previous_intent |-> "", user_id |-> ""]
Ctx(prev, uid) == [present |-> TRUE, previous_intent |-> prev, user_id |-> uid]

Contexts == { NoContext, Ctx("greeting", ""), Ctx("", "u1") }

\* What model.predict_proba can return for a model of k classes: one
\* probability (in hundredths) per class, summing to 1.
ProbaChoices(k) ==
  IF k = 2 THEN { <<60, 40>>, <<5, 95>> }
  ELSE IF k = 3 THEN { <<40, 35, 25>>, <<10, 10, 80>> }
  ELSE IF k = 7 THEN { <<30, 15, 15, 15, 15, 5, 5>>,
                       <<0, 85, 15, 0, 0, 0, 0>>,
                       <<10, 5, 80, 5, 0, 0, 0>>,
                       <<5, 40, 45, 10, 0, 0, 0>> }
  ELSE { [i \in 1..k |-> IF i = 1 THEN 100 ELSE 0] }

(***************************************************************************)
(* Objects held by the engine.                                             *)
(***************************************************************************)
\* Python's None, and the two scikit-learn objects.  run is the training
\* run that created the object, classes the label list of that run in class
\* index order, nfeat the size of the fitted vocabulary.
None == [kind |-> "None", run |-> 0, fitted |-> FALSE, classes |-> << >>, nfeat |-> 0]

TfidfVectorizer(r) ==
  [kind |-> "TfidfVectorizer", run |-> r, fitted |-> FALSE, classes |-> << >>, nfeat |-> 0]

RandomForestClassifier(r) ==
  [kind |-> "RandomForestClassifier", run |-> r, fitted |-> FALSE, classes |-> << >>, nfeat |-> 0]

\* bool(obj): None is false; a RandomForestClassifier answers through
\* BaseEnsemble.__len__, which reads estimators_ and so raises before fit.
Truthy(obj) ==
  IF obj.kind = "None" THEN [exc |-> FALSE, val |-> FALSE]
  ELSE IF obj.kind = "RandomForestClassifier" /\ ~obj.fitted
    THEN [exc |-> TRUE, val |-> FALSE]
  ELSE [exc |-> FALSE, val |-> TRUE]

(***************************************************************************)
(* predict and its two strategies.  A result carries, beside the three     *)
(* fields the code returns, two fields of bookkeeping: strategy, the code  *)
(* path that built the result, and raw, the confidence before the context  *)
(* adjustment.                                                             *)
(***************************************************************************)
Result(intent, confidence, alternatives, strategy, raw) ==
  [exc |-> FALSE, intent |-> intent, confidence |-> confidence,
   alternatives |-> alternatives, strategy |-> strategy, raw |-> raw]

Raised ==
  [exc |-> TRUE, intent |-> "", confidence |-> 0,
   alternatives |-> << >>, strategy |-> "raise", raw |-> 0]

\* The literal {"intent": "unknown", "confidence": 0.0, "alternatives": []}.
UnknownResult(strategy) == Result("unknown", 0, << >>, strategy, 0)

Alt(intent, confidence) == [intent |-> intent, confidence |-> confidence]

\* alternatives.sort(key=confidence, reverse=True): descending by
\* confidence, entries of equal confidence in their original order.
SortDesc(alts) ==
  LET n == Len(alts)
      rank(i) == Cardinality({j \in 1..n : alts[j].confidence > alts[i].confidence})
                 + Cardinality({j \in 1..(i - 1) : alts[j].confidence = alts[i].confidence})
                 + 1
  IN  [k \in 1..n |-> alts[CHOOSE i \in 1..n : rank(i) = k]]

\* A slice that keeps everything.
Top3_NoCap(alts) == alts

\* alternatives[:3]
Top3(alts) == SubSeq(alts, 1, IF Len(alts) < 3 THEN Len(alts) ELSE 3)

Min(a, b) == IF a < b THEN a ELSE b

\* _apply_context without line 363.
_apply_context_NoClamp(intent, confidence, context) ==
  LET c1 == IF context.previous_intent = "greeting" /\ intent = "self_intro"
              THEN (confidence * 12) \div 10 ELSE confidence
      c2 == IF context.user_id # "" /\ intent = "ask_name"
              THEN (c1 * 8) \div 10 ELSE c1
  IN  [intent |-> intent, confidence |-> c2]

\* _apply_context: the two multipliers, then the clamp to 1.0.
_apply_context(intent, confidence, context) ==
  LET c1 == IF context.previous_intent = "greeting" /\ intent = "self_intro"
              THEN (confidence * 12) \div 10 ELSE confidence
      c2 == IF context.user_id # "" /\ intent = "ask_name"
              THEN (c1 * 8) \div 10 ELSE c1
  IN  [intent |-> intent, confidence |-> Min(c2, 100)]

\* fuzz.ratio(text.lower(), phrase.lower()) of line 141.
Score(text, phrase) ==
  Bind(Lower(text), LAMBDA a : Bind(Lower(phrase), LAMBDA b : fuzz_ratio(a, b)))

\* One iteration of the loop of lines 138-155 on the running
\* (best_match, best_score, alternatives); best_match "" is None.
ScanStep(st, intent, score) ==
  IF score > st.best_score
    THEN [best_match |-> intent, best_score |-> score,
          alternatives |-> IF st.best_match # ""
                             THEN Append(st.alternatives, Alt(st.best_match, st.best_score))
                             ELSE st.alternatives]
  ELSE IF score > 50
    THEN [st EXCEPT !.alternatives = Append(@, Alt(intent, score))]
  ELSE st

RECURSIVE ScanPhrases(_, _, _, _)
\* The inner loop (line 139) over the first p phrases of one intent,
\* entered with the loop state st.
ScanPhrases(st, text, intent, p) ==
  IF p = 0 THEN st
  ELSE Bind(ScanPhrases(st, text, intent, p - 1),
            LAMBDA s : ScanStep(s, intent.intent, Score(text, intent.phrases[p])))

RECURSIVE ScanIntents(_, _, _)
\* The outer loop (line 138) over the first n intents of intents_data.
ScanIntents(intents_data, text, n) ==
  IF n = 0 THEN [best_match |-> "", best_score |-> 0, alternatives |-> << >>]
  ELSE Bind(ScanIntents(intents_data, text, n - 1),
            LAMBDA st : ScanPhrases(st, text, intents_data[n],
                                    Len(intents_data[n].phrases)))

\* The test of line 157 with "at least 0.6".
Accepted_AtLeast(st) == st.best_match # "" /\ st.best_score >= 60

\* The test of line 157: if best_match and best_score > 0.6.
Accepted(st) == st.best_match # "" /\ st.best_score > 60

\* The body of _rule_based_predict's try block.
rule_based_body(text) ==
  IF text.none THEN Raised    \* None.lower(): AttributeError
  ELSE Bind(ScanIntents(_load_default_intents, text.s, Len(_load_default_intents)),
            LAMBDA st :
              IF Accepted(st)
                THEN Result(st.best_match, st.best_score,
                            Top3(SortDesc(st.alternatives)), "fuzzy", st.best_score)
              ELSE UnknownResult("fuzzy"))

\* rule_based_body on every text of the model, evaluated once.
RuleBasedTable == [t \in Texts |-> rule_based_body(t)]

\* _rule_based_predict: the context argument is accepted and not used.
_rule_based_predict(text, context) ==
  Bind(IF text \in DOMAIN RuleBasedTable THEN RuleBasedTable[text]
       ELSE rule_based_body(text),
       LAMBDA r : IF r.exc THEN UnknownResult("fuzzy") ELSE r)

\* np.argmax: the first index of the greatest probability.
ArgMax(proba) ==
  CHOOSE i \in 1..Len(proba) :
    /\ \A j \in 1..Len(proba) : proba[j] <= proba[i]
    /\ \A j \in 1..(i - 1) : proba[j] < proba[i]

\* The loop of lines 101-106: every class but the predicted one whose
\* probability exceeds 0.1, in index order.
Alternatives(labels, proba, idx) ==
  LET picked == {i \in 1..Len(proba) : i # idx /\ proba[i] > 10}
  IN  [k \in 1..Cardinality(picked) |->
         Alt(labels[KthSmallest(picked, k)], proba[KthSmallest(picked, k)])]

\* The body of _ml_predict's try block.  self is the engine as the call
\* reads it, proba what predict_proba returns for this text.
ml_body(self, text, context, proba) ==
  IF text.none \/ ~self.vectorizer.fitted
    THEN Raised   \* vectorizer.transform: not a string, or NotFittedError
  ELSE IF ~self.model.fitted \/ self.model.nfeat # self.vectorizer.nfeat
    THEN Raised   \* predict_proba: NotFittedError, or wrong number of features
  ELSE LET idx == ArgMax(proba)
           needed == {idx} \cup {i \in 1..Len(proba) : proba[i] > 10}
       IN  IF \E i \in needed : i > Len(self.intent_labels)
             THEN Raised   \* intent_labels[i]: IndexError
           ELSE LET alts == Top3(SortDesc(Alternatives(self.intent_labels, proba, idx)))
                    adj  == IF context.present
                              THEN _apply_context(self.intent_labels[idx], proba[idx], context)
                              ELSE [intent |-> self.intent_labels[idx],
                                    confidence |-> proba[idx]]
                IN  Result(adj.intent, adj.confidence, alts, "ml", proba[idx])

\* _ml_predict: on any exception the fuzzy strategy answers.
_ml_predict(self, text, context, proba) ==
  Bind(ml_body(self, text, context, proba),
       LAMBDA r : IF r.exc THEN _rule_based_predict(text, context) ELSE r)

\* The body of predict's try block.
predict_body(self, text, context, proba) ==
  LET m == Truthy(self.model)
  IN  IF m.exc THEN Raised
      ELSE IF m.val /\ Truthy(self.vectorizer).val
        THEN _ml_predict(self, text, context, proba)
      ELSE _rule_based_predict(text, context)

\* predict without its try/except.
predict_NoHandler(self, text, context, proba) ==
  predict_body(self, text, context, proba)

\* predict: on any exception the literal unknown result is returned.
predict(self, text, context, proba) ==
  Bind(predict_body(self, text, context, proba),
       LAMBDA r : IF r.exc THEN UnknownResult("handler") ELSE r)

(***************************************************************************)
(* Part 2: the text pipeline around the intent engine:                     *)
(* utils/preprocessing.py (SinglishPreprocessor),                          *)
(* models/singlish_classifier.py (SinglishClassifier) and                  *)
(* models/response_generator.py (ResponseGenerator).                       *)
(***************************************************************************)
\* The characters of a string literal.
Chars(s) == [i \in 1..Len(s) |-> SubSeq(s, i, i)]

\* The elements of s at the indices of keep, in order.
Pick(s, keep) == [k \in 1..Cardinality(keep) |-> s[KthSmallest(keep, k)]]

Digits == {"0", "1", "2", "3", "4", "5", "6", "7", "8", "9"}
Letters == {LowerAZ[i] : i \in 1..26} \cup {UpperAZ[i] : i \in 1..26}

\* \s and \w of the re module, on the characters of the model.
IsSpace(c) == c \in {" ", "\t", "\n"}
IsWord(c) == c \in Letters \cup Digits \cup {"_"}

\* str.strip()
Strip(s) ==
  LET inked == {i \in 1..Len(s) : ~IsSpace(s[i])}
  IN  IF inked = {} THEN << >> ELSE SubSeq(s, SetMin(inked), SetMax(inked))

\* re.sub(r'\s+', ' ', s): the first character of a run of whitespace
\* becomes a space, the rest of the run goes.
CollapseWhitespace(s) ==
  LET keep == {i \in 1..Len(s) : ~IsSpace(s[i]) \/ i = 1 \/ ~IsSpace(s[i - 1])}
      t == [i \in 1..Len(s) |-> IF IsSpace(s[i]) THEN " " ELSE s[i]]
  IN  Pick(t, keep)

\* Whether old occurs in s at index i.
OccursAt(s, old, i) ==
  i + Len(old) - 1 <= Len(s) /\ SubSeq(s, i, i + Len(old) - 1) = old

\* s.find(old): the first index of old in s, 0 when it does not occur
\* (Python's -1).
Find(s, old) ==
  LET occ == {i \in 1..Len(s) : OccursAt(s, old, i)}
  IN  IF occ = {} THEN 0 ELSE SetMin(occ)

\* old in s
Contains(s, old) == Find(s, old) # 0

RECURSIVE ReplaceFrom(_, _, _, _)
\* s[i:].replace(old, new): occurrences are taken from the left and do not
\* overlap.
ReplaceFrom(s, old, new, i) ==
  IF i > Len(s) THEN << >>
  ELSE IF OccursAt(s, old, i) THEN new \o ReplaceFrom(s, old, new, i + Len(old))
  ELSE <<s[i]>> \o ReplaceFrom(s, old, new, i + 1)

\* s.replace(old, new), old not empty.
Replace(s, old, new) == IF Contains(s, old) THEN ReplaceFrom(s, old, new, 1) ELSE s

\* s.split(): the maximal runs of characters that are not whitespace.
Split(s) ==
  LET starts == {i \in 1..Len(s) : ~IsSpace(s[i]) /\ (i = 1 \/ IsSpace(s[i - 1]))}
      ends   == {i \in 1..Len(s) : ~IsSpace(s[i]) /\ (i = Len(s) \/ IsSpace(s[i + 1]))}
  IN  [k \in 1..Cardinality(starts) |->
         SubSeq(s, KthSmallest(starts, k), KthSmallest(ends, k))]

RECURSIVE JoinFrom(_, _)
JoinFrom(words, k) ==
  IF k > Len(words) THEN << >>
  ELSE IF k = Len(words) THEN words[k]
  ELSE words[k] \o <<" ">> \o JoinFrom(words, k + 1)

\* ' '.join(words)
Join(words) == JoinFrom(words, 1)

\* A dict literal as the sequence of its key: value lines; a key written
\* twice has the value of its last line.
HasKey(d, w) == \E i \in 1..Len(d) : Chars(d[i][1]) = w
Get(d, w) == Chars(d[SetMax({i \in 1..Len(d) : Chars(d[i][1]) = w})][2])

\* self.singlish_mappings
singlish_mappings ==
  << <<"lah", "">>, <<"lor", "">>, <<"meh", "">>, <<"sia", "">>,
     <<"what", "what">>, <<"liddat", "like that">>, <<"lidat", "like that">>,
     <<"lidis", "like this">>, <<"lidis", "like this">>, <<"macam", "like">>,
     <<"machai", "friend">>, <<"machan", "friend">>, <<"nangi", "sister">>,
     <<"akka", "sister">>, <<"aiya", "oh no">>, <<"aiyo", "oh no">>,
     <<"wah", "wow">>, <<"shiok", "nice">>, <<"steady", "good">>,
     <<"chio", "beautiful">>, <<"blur", "confused">>, <<"sian", "bored">>,
     <<"jialat", "terrible">>, <<"buay", "cannot">>, <<"tahan", "endure">>,
     <<"paiseh", "embarrassed">>, <<"kiasu", "afraid to lose">>,
     <<"kiasi", "afraid to die">>, <<"bojio", "didnt invite">>,
     <<"chope", "reserve">>, <<"lepak", "relax">>, <<"makan", "eat">>,
     <<"tapao", "takeaway">>, <<"tabao", "takeaway">>,
     <<"chit chat", "chat">>, <<"ang moh", "westerner">>,
     <<"mata", "police">>, <<"kena", "got">>, <<"cannot", "cannot">>,
     <<"can", "can">>, <<"got", "have">>, <<"never", "didnt">>,
     <<"already", "already">>, <<"then", "then">>, <<"also", "also">>,
     <<"still", "still">>, <<"very", "very">>, <<"so", "so">>,
     <<"like", "like">>, <<"want", "want">>, <<"dont want", "dont want">>,
     <<"no need", "no need">>, <<"need", "need">>, <<"must", "must">>,
     <<"confirm", "confirm">>, <<"sure", "sure">>, <<"really", "really">>,
     <<"actually", "actually">>, <<"maybe", "maybe">>,
     <<"definitely", "definitely">>, <<"probably", "probably">> >>

\* self.sinhala_romanized
sinhala_romanized ==
  << <<"kohomada", "how are you">>, <<"kohomadha", "how are you">>,
     <<"kohomda", "how are you">>, <<"kohoma", "how">>, <<"oyage", "your">>,
     <<"mage", "my">>, <<"nama", "name">>, <<"mama", "i">>, <<"oya", "you">>,
     <<"api", "we">>, <<"mokakda", "what">>, <<"mokak", "what">>,
     <<"kawda", "who">>, <<"koheda", "where">>, <<"kiyada", "how much">>,
     <<"kiyanne", "saying">>, <<"karanne", "doing">>, <<"yanne", "going">>,
     <<"enawa", "coming">>, <<"hari", "good">>, <<"honda", "good">>,
     <<"naha", "no">>, <<"ow", "yes">>, <<"mata", "me">>, <<"giya", "went">>,
     <<"awa", "came">>, <<"kanna", "eat">>, <<"bonawa", "drink">>,
     <<"balanna", "see">>, <<"ahanna", "listen">>, <<"katha", "talk">>,
     <<"help", "help">>, <<"karanna", "do">>, <<"denne", "give">>,
     <<"ganna", "take">>, <<"therenne", "know">>, <<"dannawa", "know">>,
     <<"adare", "love">>, <<"stuti", "thanks">>, <<"stutiyi", "thanks">>,
     <<"bohoma", "very">>, <<"godak", "very">>, <<"tikak", "little">>,
     <<"loku", "big">>, <<"podi", "small">>, <<"rassai", "delicious">>,
     <<"watinawa", "important">>, <<"lassana", "beautiful">>,
     <<"hodai", "good">>, <<"naraka", "bad">>, <<"baya", "scared">>,
     <<"ussai", "tall">>, <<"pathal", "low">>, <<"mal", "flowers">>,
     <<"gas", "tree">>, <<"pala", "fruit">>, <<"bath", "rice">>,
     <<"curry", "curry">>, <<"kiri", "milk">>, <<"thee", "tea">>,
     <<"kopi", "coffee">>, <<"watura", "water">>, <<"ira", "sun">>,
     <<"handa", "moon">>, <<"tharu", "star">>, <<"gaha", "tree">>,
     <<"mala", "flower">>, <<"wassa", "rain">>, <<"wata", "wind">> >>

\* self.contraction_mapping, in the order of the literal
contraction_mapping ==
  << <<"ain't", "is not">>, <<"aren't", "are not">>, <<"can't", "cannot">>,
     <<"couldn't", "could not">>, <<"didn't", "did not">>,
     <<"doesn't", "does not">>, <<"don't", "do not">>,
     <<"hadn't", "had not">>, <<"hasn't", "has not">>,
     <<"haven't", "have not">>, <<"he'd", "he would">>,
     <<"he'll", "he will">>, <<"he's", "he is">>, <<"i'd", "i would">>,
     <<"i'll", "i will">>, <<"i'm", "i am">>, <<"i've", "i have">>,
     <<"isn't", "is not">>, <<"it'd", "it would">>, <<"it'll", "it will">>,
     <<"it's", "it is">>, <<"let's", "let us">>,
     <<"shouldn't", "should not">>, <<"that's", "that is">>,
     <<"there's", "there is">>, <<"they'd", "they would">>,
     <<"they'll", "they will">>, <<"they're", "they are">>,
     <<"they've", "they have">>, <<"we'd", "we would">>,
     <<"we're", "we are">>, <<"we've", "we have">>,
     <<"weren't", "were not">>, <<"what's", "what is">>,
     <<"where's", "where is">>, <<"who's", "who is">>,
     <<"won't", "will not">>, <<"wouldn't", "would not">>,
     <<"you'd", "you would">>, <<"you'll", "you will">>,
     <<"you're", "you are">>, <<"you've", "you have">> >>

(***************************************************************************)
(* SinglishPreprocessor.process                                            *)
(***************************************************************************)
RECURSIVE ExpandRange(_, _, _)
\* The loop of _expand_contractions over the entries lo..hi of the table.
ExpandRange(text, lo, hi) ==
  IF lo = hi
    THEN Replace(text, Chars(contraction_mapping[lo][1]), Chars(contraction_mapping[lo][2]))
  ELSE Bind(ExpandRange(text, lo, (lo + hi) \div 2),
            LAMBDA t : ExpandRange(t, (lo + hi) \div 2 + 1, hi))

\* _expand_contractions
_expand_contractions(text) == ExpandRange(text, 1, Len(contraction_mapping))

\* The list of line 241.
Particles ==
  {Chars("lah"), Chars("lor"), Chars("meh"), Chars("sia"), Chars("leh"),
   Chars("hor"), Chars("ah")}

\* What one word adds to processed_words in _process_singlish_terms: a
\* list of no or one element.
SinglishWord(word) ==
  IF word \in Particles THEN << >>
  ELSE IF HasKey(singlish_mappings, word)
    THEN Bind(Get(singlish_mappings, word),
              LAMBDA mapped : IF mapped # << >> THEN <<mapped>> ELSE << >>)
  ELSE <<word>>

\* The words that the per-word lists of added hold, in order.
Flatten(added) ==
  Bind({k \in 1..Len(added) : added[k] # << >>},
       LAMBDA kept : [j \in 1..Cardinality(kept) |-> added[KthSmallest(kept, j)][1]])

\* _process_singlish_terms
_process_singlish_terms(text) ==
  Bind(Split(text),
       LAMBDA words :
         Bind([k \in 1..Len(words) |-> SinglishWord(words[k])],
              LAMBDA added : Join(Flatten(added))))

\* _process_sinhala_terms
_process_sinhala_terms(text) ==
  Bind(Split(text),
       LAMBDA words :
         Join([k \in 1..Len(words) |->
                 IF HasKey(sinhala_romanized, words[k])
                   THEN Get(sinhala_romanized, words[k]) ELSE words[k]]))

\* re.sub(r'[\?\!]{2,}', '?', text): a run of two or more of ? and ! becomes
\* one ?.
CollapseMarks(text) ==
  LET mark(i) == i >= 1 /\ i <= Len(text) /\ text[i] \in {"?", "!"}
      keep == {i \in 1..Len(text) : ~mark(i) \/ ~mark(i - 1)}
      t == [i \in 1..Len(text) |-> IF mark(i) /\ mark(i + 1) THEN "?" ELSE text[i]]
  IN  Pick(t, keep)

\* _clean_punctuation: re.sub(r'[^\w\s\?\!]', '', text), then the runs.
_clean_punctuation(text) ==
  Bind(Pick(text, {i \in 1..Len(text) :
                     IsWord(text[i]) \/ IsSpace(text[i]) \/ text[i] \in {"?", "!"}}),
       LAMBDA t : CollapseMarks(t))

\* The statements of the try block of process, lines 202 to 220.
TrySteps == 7

\* Statement k of the try block on the value text holds.
Stage(k, text) ==
  CASE k = 1 -> Strip(Lower(text))
    [] k = 2 -> CollapseWhitespace(text)
    [] k = 3 -> _expand_contractions(text)
    [] k = 4 -> _process_singlish_terms(text)
    [] k = 5 -> _process_sinhala_terms(text)
    [] k = 6 -> _clean_punctuation(text)
    [] k = 7 -> Strip(text)

RECURSIVE RunStages(_, _)
\* The variable text after the statements 1..k.
RunStages(text, k) ==
  IF k = 0 THEN text
  ELSE Bind(RunStages(text, k - 1), LAMBDA t : Stage(k, t))

\* A value process returns: exc says that it raised instead.
Returned(text) == [exc |-> FALSE, text |-> text]
ProcessRaised == [exc |-> TRUE, text |-> << >>]

\* process.  text is the argument, a string or None; failAt is the
\* statement of the try block that raises, 0 when none does.  A text that
\* is not a string makes statement 1 raise, and the handler's own
\* text.lower() with it.
process(text, failAt) ==
  IF text.none THEN ProcessRaised
  ELSE IF failAt = 0 THEN Returned(RunStages(text.s, TrySteps))
  ELSE Returned(Strip(Lower(RunStages(text.s, failAt - 1))))

(***************************************************************************)
(* ResponseGenerator.  A confidence is in hundredths.                      *)
(***************************************************************************)
\* self.default_responses as __init__ builds it, as key: value lines.  A
\* template is written as the sequence of its pieces, a piece being literal
\* text, a replacement field such as {name}, or one character outside
\* ASCII named by its code point.
DefaultResponses ==
  <<
    <<"greeting", <<
        <<"Hari honda machan! Oya kohomada? ", "U+1F60A">>,
        <<"Ayubowan! Mama hari honda. Oya kohomada? ", "U+1F44B">>,
        <<"Hello machan! Everything good or not? ", "U+1F604">>,
        <<"Wah, kohomada bro! Long time no see! ", "U+1F917">> >> >>,
    <<"self_intro", <<
        <<"Oya ", "{name}",
          " neda? Hari honda! Mama CoverageBot, oyata help karanna puluwan! ",
          "U+1F916">>,
        <<"Nice to meet you ", "{name}",
          "! Mama ai-powered Singlish chatbot kenek. ", "U+1F60A">>,
        <<"Wah ", "{name}",
          ", nice name machan! Mata oyata Singlish walata reply karanna puluwan! ",
          "U+1F4AC">> >> >>,
    <<"ask_name", <<
        <<"Mama CoverageBot! Singlish walata reply karanna puluwan chatbot kenek. Oyata mata kohomada kiyanawa? ",
          "U+1F604">>,
        <<"My name is CoverageBot machan! AI-powered Singlish assistant kenek. What about you? ",
          "U+1F916">>,
        <<"Hehe, mama CoverageBot kiyanawa. Sri Lankan chatbot kenek. Oya? ",
          "U+1F60A">> >> >>,
    <<"how_are_you", <<
        <<"Mama hari honda machan! Always ready to chat! Oya kohomada? ",
          "U+1F4AA">>,
        <<"I'm doing great la! Everyday also learning new Singlish words. You leh? ",
          "U+1F60A">>,
        <<"Aiyo, mama super good! Thanks for asking machan! ", "U+1F31F">> >> >>,
    <<"goodbye", <<
        <<"Bye bye machan! Mata aye pennako! See you soon! ", "U+1F44B">>,
        <<"Okay la, see you later! Take care ah! ", "U+1F917">>,
        <<"Sige, giya giya! Come back and chat again okay! ", "U+1F60A">> >> >>,
    <<"thanks", <<
        <<"Mokakwath naha machan! Mata help karanna lassana! ", "U+1F60A">>,
        <<"Welcome la! Anytime can ask me anything! ", "U+1F91D">>,
        <<"No problem bro! That's what friends are for mah! ", "U+1F4AA">> >> >>,
    <<"help", <<
        <<"Mama oyata Singlish walata reply karanna puluwan! Try karala balanna - kohomada, oyage nama mokakda, thanks wage! ",
          "U+1F91D">>,
        <<"Sure sure! I can understand Singlish and reply back. Try saying things like 'kohomada' or 'oya kawda'! ",
          "U+1F604">>,
        <<"Of course can help! I'm here to chat in Singlish with you. What you want to know? ",
          "U+1F916">> >> >>,
    <<"weather", <<
        <<"Mata weather check karanna baha machan, but Google eken balanna puluwan! ",
          "U+1F324", "U+FE0F">>,
        <<"Aiyo, I cannot check weather la. But today looks nice right? ",
          "U+2600", "U+FE0F">>,
        <<"Sorry machan, weather updates mata naha. Try weather app! ",
          "U+1F326", "U+FE0F">> >> >>,
    <<"love", <<
        <<"Aww, sweet machan! Mata podi robot kenek witharai, but thanks! ",
          "U+1F495">>,
        <<"Hehe, so sweet! But I'm just AI la. Find real human better! ",
          "U+1F604", "U+2764", "U+FE0F">>,
        <<"Ayyo, mata emotions naha but appreciate the love! ", "U+1F917">> >> >>,
    <<"food", <<
        <<"Aiyo mata kanna baha! But rice and curry sounds good machan! ",
          "U+1F35B">>,
        <<"Wah, food talk ah? I cannot eat but love hearing about Sri Lankan food! ",
          "U+1F35C">>,
        <<"Cannot taste but kottu, hoppers, string hoppers all sound delicious! ",
          "U+1F958">> >> >>,
    <<"unknown", <<
        <<"Mata eka therenne naha machan! Try 'kohomada' or 'help' kiyla! ",
          "U+1F914">>,
        <<"Hmm, mata eka understand karanna baha. Simple Singlish walata try karanna! ",
          "U+1F605">>,
        <<"Aiyo, mata confused! Can you say that again in simpler words? ",
          "U+1F937", "U+200D", "U+2642", "U+FE0F">>,
        <<"Sorry machan, that one I don't know. Ask me something else! ",
          "U+1F4AD">> >> >>
  >>

\* self.context_modifiers
context_modifiers ==
  <<
    <<"first_time", <<
        <<"Nice to meet you!">>,
        <<"Welcome!">>,
        <<"First time here ah?">> >> >>,
    <<"returning", <<
        <<"Welcome back!">>,
        <<"Good to see you again!">>,
        <<"How have you been?">> >> >>,
    <<"frequent", <<
        <<"My regular customer!">>,
        <<"Always here ah!">>,
        <<"You really like chatting!">> >> >>,
    <<"morning", <<
        <<"Good morning!">>,
        <<"Early bird today!">>,
        <<"Rise and shine!">> >> >>,
    <<"afternoon", <<
        <<"Good afternoon!">>,
        <<"Hope you had lunch!">>,
        <<"Midday chat!">> >> >>,
    <<"evening", <<
        <<"Good evening!">>,
        <<"End of day chat!">>,
        <<"How was your day?">> >> >>,
    <<"night", <<
        <<"Good night!">>,
        <<"Late night chat ah?">>,
        <<"Cannot sleep ah?">> >> >>
  >>

\* The dict a literal of key: value lines denotes.
DictOf(table) ==
  [key \in {table[k][1] : k \in 1..Len(table)} |->
     table[SetMax({k \in 1..Len(table) : table[k][1] = key})][2]]

\* Whether a piece of a template is a replacement field of str.format.
IsField(piece) == SubSeq(piece, 1, 1) = "{"
\* Whether a piece is one character named by its code point.
IsCodePoint(piece) == Len(piece) > 2 /\ SubSeq(piece, 1, 2) = "U+"

\* The characters of one piece.
PieceText(piece) == IF IsCodePoint(piece) THEN <<piece>> ELSE Chars(piece)

RECURSIVE TextFrom(_, _)
TextFrom(template, k) ==
  IF k > Len(template) THEN << >>
  ELSE PieceText(template[k]) \o TextFrom(template, k + 1)

\* The string a template is.
TextOf(template) == TextFrom(template, 1)

\* The strings of a list of templates.
TextsOf(templates) == [k \in 1..Len(templates) |-> TextOf(templates[k])]

RECURSIVE FormatFrom(_, _, _)
FormatFrom(template, name, k) ==
  IF k > Len(template) THEN << >>
  ELSE (IF template[k] = "{name}" THEN name ELSE PieceText(template[k]))
       \o FormatFrom(template, name, k + 1)

\* response.format(name=name): a replacement field other than {name}
\* raises KeyError.
Format(template, name) ==
  IF \E k \in 1..Len(template) : IsField(template[k]) /\ template[k] # "{name}"
    THEN [exc |-> TRUE, text |-> << >>]
  ELSE [exc |-> FALSE, text |-> FormatFrom(template, name, 1)]

\* str.upper() on one character.
UpperChar(c) ==
  IF \E i \in 1..26 : LowerAZ[i] = c
    THEN UpperAZ[CHOOSE i \in 1..26 : LowerAZ[i] = c]
    ELSE c

\* str.capitalize()
Capitalize(s) ==
  [i \in 1..Len(s) |-> IF i = 1 THEN UpperChar(s[i]) ELSE LowerChar(s[i])]

\* s.strip('.,!?')
StripMarks(s) ==
  LET inked == {i \in 1..Len(s) : s[i] \notin {".", ",", "!", "?"}}
  IN  IF inked = {} THEN << >> ELSE SubSeq(s, SetMin(inked), SetMax(inked))

\* The list patterns of _extract_name.
patterns ==
  <<"my name is ", "i am ", "im ", "mage nama ", "mama ", "mamai ", "mamayi ">>

\* The value _extract_name returns: found FALSE is None.
NoName == [found |-> FALSE, name |-> << >>]
Name(s) == [found |-> TRUE, name |-> s]

RECURSIVE ExtractFrom_FirstOnly(_, _)
\* A loop that would end at the first pattern that occurs, with or
\* without a word after it.
ExtractFrom_FirstOnly(message, p) ==
  IF p > Len(patterns) THEN NoName
  ELSE Bind(Find(Lower(message), Chars(patterns[p])),
         LAMBDA at :
           IF at = 0 THEN ExtractFrom_FirstOnly(message, p + 1)
           ELSE Bind(Split(SubSeq(message, at + Len(patterns[p]), Len(message))),
                  LAMBDA name_parts :
                    IF name_parts # << >>
                      THEN Name(Capitalize(StripMarks(name_parts[1])))
                    ELSE NoName))

RECURSIVE ExtractFrom(_, _)
\* The loop of _extract_name from pattern p on.
ExtractFrom(message, p) ==
  IF p > Len(patterns) THEN NoName
  ELSE Bind(Find(Lower(message), Chars(patterns[p])),
         LAMBDA at :
           IF at = 0 THEN ExtractFrom(message, p + 1)
           ELSE Bind(Split(SubSeq(message, at + Len(patterns[p]), Len(message))),
                  LAMBDA name_parts :
                    IF name_parts # << >>
                      THEN Name(Capitalize(StripMarks(name_parts[1])))
                    ELSE ExtractFrom(message, p + 1)))

\* _extract_name: a message that is not a string makes message.lower()
\* raise, and the handler returns None.
_extract_name(message) ==
  IF message.none THEN NoName ELSE ExtractFrom(message.s, 1)

\* The string of line 171.
BaseResponseError ==
  Chars("Mata eka therenne naha machan! ") \o <<"U+1F914">>

\* random.choice(responses) with the draw k: an empty list raises.
Choice(responses, k) ==
  IF responses = << >> THEN [exc |-> TRUE, val |-> << >>]
  ELSE [exc |-> FALSE, val |-> responses[((k - 1) % Len(responses)) + 1]]

\* The text of a drawn template, or the exception of the draw.
Drawn(response) ==
  IF response.exc THEN [exc |-> TRUE, text |-> << >>]
  ELSE [exc |-> FALSE, text |-> TextOf(response.val)]

\* The try block of _get_base_response on the table responses_of.
base_response_body(responses_of, intent, message, k) ==
  IF intent \in DOMAIN responses_of
    THEN IF intent = "self_intro"
           THEN Bind(_extract_name(message),
                  LAMBDA name :
                    IF name.found /\ name.name # << >>
                      THEN Bind(Choice(responses_of[intent], k),
                             LAMBDA response :
                               IF response.exc THEN Drawn(response)
                               ELSE Format(response.val, name.name))
                    ELSE Drawn(Choice(responses_of[intent], k)))
         ELSE Drawn(Choice(responses_of[intent], k))
  ELSE IF "unknown" \notin DOMAIN responses_of
    THEN [exc |-> TRUE, text |-> << >>]   \* KeyError
  ELSE Drawn(Choice(responses_of["unknown"], k))

\* _get_base_response: failed says that the handler of line 169 answered.
_get_base_response(responses_of, intent, message, k) ==
  Bind(base_response_body(responses_of, intent, message, k),
       LAMBDA r : IF r.exc THEN [failed |-> TRUE, text |-> BaseResponseError]
                  ELSE [failed |-> FALSE, text |-> r.text])

\* The random draws of one generate call: k for the template; returning
\* for "is_returning and random.random() < 0.3" and r for the phrase that
\* follows; hour for the wall clock; timed for "random.random() < 0.2" of
\* line 254 and t for the phrase; tone for the draw of line 272 or 278 and
\* m for the marker.
Modifiers ==
  [key \in DOMAIN DictOf(context_modifiers) |-> TextsOf(DictOf(context_modifiers)[key])]

\* _apply_personalization
_apply_personalization(response, d) ==
  IF d.returning
    THEN response \o <<" ">> \o Choice(Modifiers["returning"], d.r).val
  ELSE response

\* The bucket of lines 244-251.
time_context(current_hour) ==
  IF 5 <= current_hour /\ current_hour < 12 THEN "morning"
  ELSE IF 12 <= current_hour /\ current_hour < 17 THEN "afternoon"
  ELSE IF 17 <= current_hour /\ current_hour < 21 THEN "evening"
  ELSE "night"

\* _apply_context_modifiers
_apply_context_modifiers(response, d) ==
  IF d.timed
    THEN Choice(Modifiers[time_context(d.hour)], d.t).val \o <<" ">> \o response
  ELSE response

uncertainty_markers == <<"I think", "Maybe", "Not sure but", "Probably">>

\* A tone step that would take confidence 0.7 for a low confidence and
\* 0.9 for a high one.
_add_personality_Inclusive(response, intent, confidence, d) ==
  IF confidence <= 70
    THEN IF d.tone
           THEN Chars(uncertainty_markers[d.m]) \o <<" ">> \o Lower(response)
         ELSE response
  ELSE IF confidence >= 90
    THEN IF d.tone THEN response \o <<" ", "U+1F389">> ELSE response
  ELSE response

\* _add_personality
_add_personality(response, intent, confidence, d) ==
  IF confidence < 70
    THEN IF d.tone
           THEN Chars(uncertainty_markers[d.m]) \o <<" ">> \o Lower(response)
         ELSE response
  ELSE IF confidence > 90
    THEN IF d.tone THEN response \o <<" ", "U+1F389">> ELSE response
  ELSE response

\* The result of line 142.
Apology ==
  Chars("Sorry machan, mata podi problem ekak! Try again? ") \o <<"U+1F605">>
FallbackResult ==
  [response |-> Apology, strategy |-> "fallback", confidence |-> 50,
   personalized |-> FALSE]

\* The user_id argument: None, or a string.
NoUser == [none |-> TRUE, s |-> ""]
User(s) == [none |-> FALSE, s |-> s]

\* The statements of generate between _get_base_response and the tone
\* step, lines 120 to 127: the response _add_personality is given.
final_response(base, user_id, d) ==
  Bind(IF ~user_id.none /\ user_id.s # ""
         THEN _apply_personalization(base, d) ELSE base,
    LAMBDA base_response : _apply_context_modifiers(base_response, d))

\* The statements of generate that follow _get_base_response, lines 120
\* to 138.
compose(base, intent, confidence, user_id, d) ==
  [response |-> _add_personality(final_response(base, user_id, d),
                                 intent, confidence, d),
   strategy |-> "template_based",
   confidence |-> confidence,
   personalized |-> ~user_id.none]

\* generate.  Every step of its try block has a handler of its own, so the
\* handler of line 140 has nothing to catch.
generate(responses_of, message, intent, confidence, user_id, d) ==
  Bind(_get_base_response(responses_of, intent, message, d.k).text,
       LAMBDA base : compose(base, intent, confidence, user_id, d))

\* An item of the training data of ResponseGenerator.train: what
\* item.get("intent") and item.get("response") return, "" and << >> for a
\* missing key; dict FALSE is an item without a get method.
Item(intent, response) == [dict |-> TRUE, intent |-> intent, response |-> response]
NotADict == [dict |-> FALSE, intent |-> "", response |-> << >>]

\* An iteration that would create the key of a new intent before looking
\* at the response.
TrainItem_KeyFirst(responses_of, item) ==
  IF item.intent # ""
    THEN Bind(IF item.intent \in DOMAIN responses_of THEN responses_of
              ELSE [i \in DOMAIN responses_of \cup {item.intent} |->
                      IF i = item.intent THEN << >> ELSE responses_of[i]],
           LAMBDA t :
             IF \/ item.response = << >>
                \/ \E j \in 1..Len(t[item.intent]) : t[item.intent][j] = item.response
               THEN t
             ELSE [t EXCEPT ![item.intent] = Append(@, item.response)])
  ELSE responses_of

\* An iteration that would append the response without looking for it in
\* the list.
TrainItem_AlwaysAppend(responses_of, item) ==
  IF item.intent # "" /\ item.response # << >>
    THEN Bind(IF item.intent \in DOMAIN responses_of THEN responses_of
              ELSE [i \in DOMAIN responses_of \cup {item.intent} |->
                      IF i = item.intent THEN << >> ELSE responses_of[i]],
           LAMBDA t : [t EXCEPT ![item.intent] = Append(@, item.response)])
  ELSE responses_of

\* One iteration of the loop of train (lines 312-320) on the table.
TrainItem(responses_of, item) ==
  IF item.intent # "" /\ item.response # << >>
    THEN Bind(IF item.intent \in DOMAIN responses_of THEN responses_of
              ELSE [i \in DOMAIN responses_of \cup {item.intent} |->
                      IF i = item.intent THEN << >> ELSE responses_of[i]],
           LAMBDA t :
             IF \E j \in 1..Len(t[item.intent]) : t[item.intent][j] = item.response
               THEN t
             ELSE [t EXCEPT ![item.intent] = Append(@, item.response)])
  ELSE responses_of

RECURSIVE TrainLoop(_, _, _)
\* The loop of train over the first n items: the table it leaves, and
\* whether an item raised (the loop stops there).
TrainLoop(responses_of, training_data, n) ==
  IF n = 0 THEN [exc |-> FALSE, table |-> responses_of]
  ELSE Bind(TrainLoop(responses_of, training_data, n - 1),
         LAMBDA st :
           IF st.exc THEN st
           ELSE IF ~training_data[n].dict THEN [st EXCEPT !.exc = TRUE]
           ELSE [st EXCEPT !.table = TrainItem(st.table, training_data[n])])

(***************************************************************************)
(* models/singlish_classifier.py: the language classifier.  Scores and     *)
(* confidences are in hundredths.                                          *)
(***************************************************************************)
\* self.singlish_markers: the categories in the order the score visits
\* them, each with the weight its loop adds.
singlish_markers ==
  << [category |-> "particles", weight |-> 30,
      markers |-> <<"lah", "lor", "meh", "sia", "leh", "hor", "ah">>],
     [category |-> "sinhala_words", weight |-> 40,
      markers |-> <<"kohomada", "mama", "oya", "nama", "mokakda">>],
     [category |-> "grammar_patterns", weight |-> 20,
      markers |-> <<"got", "never", "already", "still", "also">>],
     [category |-> "expressions", weight |-> 30,
      markers |-> <<"aiyo", "wah", "shiok", "steady", "chio">>] >>

\* The markers of a category that are substrings of text (marker in text).
MarkersIn(text, c) ==
  {i \in 1..Len(c.markers) : Contains(text, Chars(c.markers[i]))}

\* One loop of the score: the weight is added for every marker found.
CategoryScore(text, c) == c.weight * Cardinality(MarkersIn(text, c))

\* The loops of the score, one after the other, from category k on.
RECURSIVE ScoreFrom(_, _)
ScoreFrom(text, k) ==
  IF k > Len(singlish_markers) THEN 0
  ELSE CategoryScore(text, singlish_markers[k]) + ScoreFrom(text, k + 1)

\* SinglishClassifier._calculate_singlish_score
_calculate_singlish_score(text) ==
  IF Split(text) = << >> THEN 0
  ELSE Min(ScoreFrom(text, 1), 100)

\* SinglishClassifier._contains_sinhala
sinhala_indicators == <<"kohomada", "oyage", "mage", "mama", "oya">>
_contains_sinhala(text) ==
  \E i \in 1..Len(sinhala_indicators) : Contains(text, Chars(sinhala_indicators[i]))

\* SinglishClassifier._extract_features
_extract_features(text) ==
  [has_particles |-> MarkersIn(text, singlish_markers[1]) # {},
   has_sinhala   |-> _contains_sinhala(text),
   word_count    |-> Len(Split(text)),
   char_count    |-> Len(text)]

\* The result of the handler of classify.
ClassifyFailed ==
  [classification |-> "unknown", confidence |-> 0, singlish_score |-> 0,
   features |-> << >>]

\* The try block of classify on a string, lowercased.
classify_body(text_lower) ==
  Bind(_calculate_singlish_score(text_lower), LAMBDA singlish_score :
    [classification |->
       IF singlish_score > 30 THEN "singlish"
       ELSE IF _contains_sinhala(text_lower) THEN "sinhala_romanized"
       ELSE "english",
     confidence |->
       IF singlish_score > 30 THEN Min(singlish_score, 100)
       ELSE IF _contains_sinhala(text_lower) THEN 80
       ELSE 100 - singlish_score,
     singlish_score |-> singlish_score,
     features |-> _extract_features(text_lower)])

\* SinglishClassifier.classify: text.lower() raises on None, which the
\* handler turns into the unknown result.
classify(text) ==
  IF text.none THEN ClassifyFailed ELSE classify_body(Lower(text.s))

(***************************************************************************)
(* Training inputs.  A training input is described by what train reads of  *)
(* it: whether every item has the keys "text" and "intent", the label of   *)
(* each sample, and the size of the vocabulary its texts give.             *)
(***************************************************************************)
Rep(x, n) == [i \in 1..n |-> x]

\* Five samples of each of two labels.
DataTwoLabels ==
  [wellformed |-> TRUE, nfeat |-> 4,
   labels |-> Rep("order", 5) \o Rep("cancel", 5)]

\* The same texts, the last one relabelled: "refund" has exactly one sample.
DataSingleSample ==
  [wellformed |-> TRUE, nfeat |-> 4,
   labels |-> Rep("order", 5) \o Rep("cancel", 4) \o <<"refund">>]

\* An item without the key "intent".
DataMissingKey == [wellformed |-> FALSE, nfeat |-> 0, labels |-> << >>]

TrainingInputs == {DataTwoLabels, DataSingleSample, DataMissingKey}

\* The training data _train_default_model builds: one sample per phrase.
SeedData ==
  [wellformed |-> TRUE, nfeat |-> 9,
   labels |-> [k \in 1..Len(CatalogPairs) |-> CatalogPairs[k].intent]]

SeqToSet(s) == {s[i] : i \in 1..Len(s)}

Count(s, x) == Cardinality({i \in 1..Len(s) : s[i] = x})

\* The distinct elements of s in the order of their first occurrence.
FirstOccurrences(s) ==
  LET firsts == {i \in 1..Len(s) : \A j \in 1..(i - 1) : s[j] # s[i]}
  IN  [k \in 1..Cardinality(firsts) |-> s[KthSmallest(firsts, k)]]

Reverse(s) == [i \in 1..Len(s) |-> s[Len(s) + 1 - i]]

\* list(set(labels)): the distinct labels in an order the hashing of the
\* process decides.  The model takes two of the possible orders.
ListOfSet(labels) ==
  {FirstOccurrences(labels), Reverse(FirstOccurrences(labels))}

\* train_test_split(test_size=0.2, stratify=y) raises ValueError when a
\* class has fewer than 2 samples or either side has fewer samples than
\* there are classes.
SplitFails(labels) ==
  LET n       == Len(labels)
      n_test  == (n + 4) \div 5
      n_train == n - n_test
      classes == SeqToSet(labels)
  IN  \/ \E c \in classes : Count(labels, c) < 2
      \/ n_train < Cardinality(classes)
      \/ n_test < Cardinality(classes)

\* _initialize_fallback: the label list it installs; model and vectorizer
\* are left as they are.
_initialize_fallback ==
  <<"greeting", "self_intro", "ask_name", "how_are_you",
    "goodbye", "thanks", "help", "unknown">>

(***************************************************************************)
(* The files models/intent_detector.pkl, intent_vectorizer.pkl and         *)
(* intent_labels.json.                                                     *)
(***************************************************************************)
\* state: "absent", "corrupt" (the file exists and cannot be deserialized)
\* or "ok"; run: the training run whose save wrote the content.
AbsentFile == [state |-> "absent", run |-> 0, obj |-> None]
CorruptFile == [state |-> "corrupt", run |-> 0, obj |-> None]
SavedFile(r, obj) == [state |-> "ok", run |-> r, obj |-> obj]

FileNames == <<"model", "vectorizer", "labels">>

\* _save_model: the three files are written in order; the first write that
\* fails ends the save (the exception is logged and swallowed).  failAt is
\* the failing write (0: none fails); how is "open" when open() fails and
\* the file is untouched, "dump" when the opened, truncated file is left
\* without a complete dump.
_save_model(files, self, r, failAt, how) ==
  [f \in {"model", "vectorizer", "labels"} |->
     LET pos == CHOOSE i \in 1..3 : FileNames[i] = f
         obj == IF f = "model" THEN self.model
                ELSE IF f = "vectorizer" THEN self.vectorizer
                ELSE self.intent_labels
     IN  IF failAt = 0 \/ pos < failAt THEN SavedFile(r, obj)
         ELSE IF pos = failAt /\ how = "dump" THEN CorruptFile
         ELSE files[f]]

\* The test of line 39 with "or" for "and".
ArtifactExists_Either(files) ==
  files["model"].state # "absent" \/ files["vectorizer"].state # "absent"

\* The test of line 39: both pickle files exist.
ArtifactExists(files) ==
  files["model"].state # "absent" /\ files["vectorizer"].state # "absent"

(***************************************************************************)
(* The state.                                                              *)
(***************************************************************************)
VARIABLES
  model,                \* self.model
  vectorizer,           \* self.vectorizer
  intent_labels,        \* self.intent_labels
  sentence_transformer, \* self.sentence_transformer: loaded or not
  booted,               \* load_model has been called on this IntentDetector
  disk,                 \* the three artifact files
  pc,                   \* the line the train or load_model call in flight is at
  call,                 \* the locals of that call
  nextRun,              \* the number of the next training run
  trainReport,          \* how the last train call of a caller ended
  loadTrace,            \* the last load_model call: the files it found, the
                        \* stages it went through, the runs of the files it read
  lastPredict,          \* the predict call that has just returned
  default_responses,    \* ResponseGenerator: self.default_responses
  quality_score,        \* ResponseGenerator: self.quality_score, in hundredths
  templates_file,       \* the file models/response_templates.json
  context_memory,       \* ResponseGenerator: self.context_memory
  last                  \* the call of the text pipeline that has just returned

\* The variables of the intent engine and those of the text pipeline.
engineVars == <<model, vectorizer, intent_labels, sentence_transformer, booted, disk,
                pc, call, nextRun, trainReport, loadTrace, lastPredict>>
pipelineVars == <<default_responses, quality_score, templates_file, context_memory, last>>

vars == <<engineVars, pipelineVars>>

\* The triple predict works with.
Self == [model |-> model, vectorizer |-> vectorizer, intent_labels |-> intent_labels]

EmptySelf == [model |-> None, vectorizer |-> None, intent_labels |-> << >>]
NoCall == [caller |-> "", run |-> 0, data |-> DataMissingKey, classes |-> << >>, pre |-> EmptySelf]
NoTrainReport == [outcome |-> "none", pre |-> EmptySelf]
NoLoad == [stages |-> << >>, runs |-> << >>, files |-> << >>]
NoHotCall == [op |-> "none"]
NoPredict ==
  [called |-> FALSE, text |-> NoneText, context |-> NoContext,
   res |-> UnknownResult(""), inTrain |-> FALSE, view |-> "", trained |-> {}]

TrainLines == {"train_203", "train_208", "train_211", "train_221"}

\* __init__
Init ==
  /\ model = None
  /\ vectorizer = None
  /\ intent_labels = << >>
  /\ sentence_transformer = FALSE
  /\ booted = FALSE
  /\ disk = [f \in {"model", "vectorizer", "labels"} |-> AbsentFile]
  /\ pc = "idle"
  /\ call = NoCall
  /\ nextRun = 1
  /\ trainReport = NoTrainReport
  /\ loadTrace = NoLoad
  /\ lastPredict = NoPredict
  /\ default_responses = DictOf(DefaultResponses)
  /\ quality_score = 85
  /\ templates_file = AbsentFile
  /\ context_memory = << >>
  /\ last = NoHotCall

(***************************************************************************)
(* train, one action per write of the engine's state that another caller   *)
(* can observe.                                                            *)
(***************************************************************************)
\* The result of a predict call is looked at in the state the call returned
\* in: the engine takes its next step once the caller has taken the result.
NoResultPending == ~lastPredict.called /\ UNCHANGED lastPredict

\* The except clause of train (lines 240-242) re-raises.  A call made by a
\* caller ends with the engine as the failed steps left it.  A call made by
\* _train_default_model is caught at lines 262-264: _initialize_fallback
\* runs and load_model goes on at line 61.
TrainRaises(caller, pre, labelsNow) ==
  /\ call' = NoCall
  /\ IF caller = "default"
       THEN /\ intent_labels' = _initialize_fallback
            /\ pc' = "load_61"
            /\ loadTrace' = [loadTrace EXCEPT !.stages = @ \o <<"train_failed", "fallback">>]
            /\ trainReport' = NoTrainReport
       ELSE /\ intent_labels' = labelsNow
            /\ pc' = "idle"
            /\ loadTrace' = loadTrace
            /\ trainReport' = [outcome |-> "raised", pre |-> pre]

\* train, lines 185-200: the samples are read (KeyError for an item without
\* a key) and self.intent_labels is replaced.
TrainCall(d) ==
  /\ UNCHANGED pipelineVars
  /\ pc = "idle"
  /\ loadTrace' = NoLoad
  /\ NoResultPending
  /\ \/ /\ ~d.wellformed
        /\ trainReport' = [outcome |-> "raised", pre |-> Self]
        /\ UNCHANGED <<intent_labels, pc, call, nextRun>>
     \/ /\ d.wellformed
        /\ nextRun <= MaxRuns
        /\ nextRun' = nextRun + 1
        /\ \E order \in ListOfSet(d.labels) :
             /\ intent_labels' = order
             /\ call' = [caller |-> "user", run |-> nextRun, data |-> d,
                         classes |-> order, pre |-> Self]
        /\ pc' = "train_203"
        /\ trainReport' = NoTrainReport
  /\ UNCHANGED <<model, vectorizer, sentence_transformer, booted, disk>>

\* train, lines 203-207: self.vectorizer is replaced by a new, unfitted one.
TrainNewVectorizer ==
  /\ UNCHANGED pipelineVars
  /\ pc = "train_203"
  /\ vectorizer' = TfidfVectorizer(call.run)
  /\ pc' = "train_208"
  /\ NoResultPending
  /\ UNCHANGED <<model, intent_labels, sentence_transformer, booted, disk, call,
                 nextRun, trainReport, loadTrace>>

\* train, line 208: fit_transform fits the vectorizer in place.
TrainFitVectorizer ==
  /\ UNCHANGED pipelineVars
  /\ pc = "train_208"
  /\ vectorizer' = [vectorizer EXCEPT !.fitted = TRUE, !.nfeat = call.data.nfeat]
  /\ pc' = "train_211"
  /\ NoResultPending
  /\ UNCHANGED <<model, intent_labels, sentence_transformer, booted, disk, call,
                 nextRun, trainReport, loadTrace>>

\* train, lines 211-220: the stratified split, which can raise, and then
\* self.model is replaced by a new, unfitted classifier.
TrainSplit ==
  /\ UNCHANGED pipelineVars
  /\ pc = "train_211"
  /\ NoResultPending
  /\ \/ /\ SplitFails(call.data.labels)
        /\ TrainRaises(call.caller, call.pre, intent_labels)
        /\ UNCHANGED model
     \/ /\ ~SplitFails(call.data.labels)
        /\ model' = RandomForestClassifier(call.run)
        /\ pc' = "train_221"
        /\ UNCHANGED <<intent_labels, call, trainReport, loadTrace>>
  /\ UNCHANGED <<vectorizer, sentence_transformer, booted, disk, nextRun>>

\* train, lines 221-238: fit (which fails when the process runs out of a
\* resource), evaluation, _save_model and the return.
TrainFitSave ==
  /\ UNCHANGED pipelineVars
  /\ pc = "train_221"
  /\ NoResultPending
  /\ \/ /\ TrainRaises(call.caller, call.pre, intent_labels)
        /\ UNCHANGED <<model, disk>>
     \/ /\ model' = [model EXCEPT !.fitted = TRUE, !.classes = call.classes,
                                  !.nfeat = vectorizer.nfeat]
        /\ \E failAt \in 0..3, how \in {"open", "dump"} :
             disk' = _save_model(disk,
                                 [model |-> model', vectorizer |-> vectorizer,
                                  intent_labels |-> intent_labels],
                                 call.run, failAt, how)
        /\ call' = NoCall
        /\ IF call.caller = "default"
             THEN /\ pc' = "load_61"
                  /\ loadTrace' = [loadTrace EXCEPT !.stages = Append(@, "trained")]
                  /\ trainReport' = NoTrainReport
             ELSE /\ pc' = "idle"
                  /\ loadTrace' = loadTrace
                  /\ trainReport' = [outcome |-> "returned", pre |-> call.pre]
        /\ UNCHANGED intent_labels
  /\ UNCHANGED <<vectorizer, sentence_transformer, booted, nextRun>>

(***************************************************************************)
(* load_model                                                              *)
(***************************************************************************)
\* load_model, lines 38-57 and 63-66, called once on an IntentDetector, at
\* the start of the process.  With both pickle files present the
\* three files are read in order, each read assigning its attribute; the
\* first read that fails ends in _initialize_fallback.  Otherwise
\* _train_default_model calls train with the seed data.
LoadModel ==
  /\ UNCHANGED pipelineVars
  /\ pc = "idle"
  /\ ~booted
  /\ booted' = TRUE
  /\ NoResultPending
  /\ trainReport' = NoTrainReport
  /\ IF ArtifactExists(disk)
       THEN LET okM == disk["model"].state = "ok"
                okV == okM /\ disk["vectorizer"].state = "ok"
                okL == okV /\ disk["labels"].state = "ok"
            IN  /\ model' = IF okM THEN disk["model"].obj ELSE model
                /\ vectorizer' = IF okV THEN disk["vectorizer"].obj ELSE vectorizer
                /\ intent_labels' = IF okL THEN disk["labels"].obj ELSE _initialize_fallback
                /\ pc' = IF okL THEN "load_61" ELSE "idle"
                /\ loadTrace' =
                     IF okL
                       THEN [stages |-> <<"loaded">>, files |-> disk,
                             runs |-> <<disk["model"].run, disk["vectorizer"].run,
                                        disk["labels"].run>>]
                       ELSE [stages |-> <<"read_failed", "fallback">>, files |-> disk,
                             runs |-> << >>]
                /\ UNCHANGED <<call, nextRun>>
       ELSE /\ nextRun <= MaxRuns
            /\ nextRun' = nextRun + 1
            /\ \E order \in ListOfSet(SeedData.labels) :
                 /\ intent_labels' = order
                 /\ call' = [caller |-> "default", run |-> nextRun, data |-> SeedData,
                             classes |-> order, pre |-> Self]
            /\ pc' = "train_203"
            /\ loadTrace' = [stages |-> <<"absent", "train">>, files |-> disk,
                             runs |-> << >>]
            /\ UNCHANGED <<model, vectorizer>>
  /\ UNCHANGED <<sentence_transformer, disk>>

\* load_model, lines 59-66: the sentence transformer is loaded; when that
\* fails, _initialize_fallback runs.
LoadSentenceTransformer ==
  /\ UNCHANGED pipelineVars
  /\ pc = "load_61"
  /\ pc' = "idle"
  /\ NoResultPending
  /\ \/ /\ sentence_transformer' = TRUE
        /\ loadTrace' = [loadTrace EXCEPT !.stages = Append(@, "st_loaded")]
        /\ UNCHANGED intent_labels
     \/ /\ intent_labels' = _initialize_fallback
        /\ loadTrace' = [loadTrace EXCEPT !.stages = @ \o <<"st_failed", "fallback">>]
        /\ UNCHANGED sentence_transformer
  /\ UNCHANGED <<model, vectorizer, booted, disk, call, nextRun, trainReport>>

\* The process is restarted: a new IntentDetector (__init__), the files kept.
Restart ==
  /\ UNCHANGED pipelineVars
  /\ pc = "idle"
  /\ model' = None
  /\ vectorizer' = None
  /\ intent_labels' = << >>
  /\ sentence_transformer' = FALSE
  /\ booted' = FALSE
  /\ trainReport' = NoTrainReport
  /\ loadTrace' = NoLoad
  /\ NoResultPending
  /\ UNCHANGED <<disk, pc, call, nextRun>>

(***************************************************************************)
(* predict, called at any moment, also while a train call is in flight.    *)
(***************************************************************************)
\* How the triple a predict call reads relates to the train call in flight:
\* "old" is the triple as it was when train was called, "new" the triple of
\* the finished run, "mixed" anything else.
TripleView ==
  IF Self = call.pre THEN "old"
  ELSE IF /\ model.run = call.run /\ model.fitted
          /\ vectorizer.run = call.run /\ vectorizer.fitted
          /\ intent_labels = call.classes
    THEN "new"
  ELSE "mixed"

\* A predict that would repair the engine on its way: it installs the
\* fallback labels whenever it answers.
Predict_Repairing(text, context) ==
  /\ UNCHANGED pipelineVars
  /\ ~lastPredict.called
  /\ \E proba \in ProbaChoices(Len(model.classes)) :
       lastPredict' =
         [called |-> TRUE, text |-> text, context |-> context,
          res |-> predict(Self, text, context, proba),
          inTrain |-> pc \in TrainLines,
          view |-> IF pc \in TrainLines THEN TripleView ELSE "",
          trained |-> SeqToSet(model.classes)]
  /\ intent_labels' = _initialize_fallback
  /\ UNCHANGED <<model, vectorizer, sentence_transformer, booted,
                 disk, pc, call, nextRun, trainReport, loadTrace>>

\* A predict call runs and returns its result.
Predict(text, context) ==
  /\ UNCHANGED pipelineVars
  /\ ~lastPredict.called
  /\ \E proba \in ProbaChoices(Len(model.classes)) :
       lastPredict' =
         [called |-> TRUE, text |-> text, context |-> context,
          res |-> predict(Self, text, context, proba),
          inTrain |-> pc \in TrainLines,
          view |-> IF pc \in TrainLines THEN TripleView ELSE "",
          trained |-> SeqToSet(model.classes)]
  /\ UNCHANGED <<model, vectorizer, intent_labels, sentence_transformer, booted,
                 disk, pc, call, nextRun, trainReport, loadTrace>>

\* The caller of predict has taken the result.
PredictDone ==
  /\ UNCHANGED pipelineVars
  /\ lastPredict.called
  /\ lastPredict' = NoPredict
  /\ UNCHANGED <<model, vectorizer, intent_labels, sentence_transformer, booted,
                 disk, pc, call, nextRun, trainReport, loadTrace>>

Next ==
  \/ \E d \in TrainingInputs : TrainCall(d)
  \/ TrainNewVectorizer
  \/ TrainFitVectorizer
  \/ TrainSplit
  \/ TrainFitSave
  \/ LoadModel
  \/ LoadSentenceTransformer
  \/ Restart
  \/ \E text \in Texts, context \in Contexts : Predict(text, context)
  \/ PredictDone

Spec == Init /\ [][Next]_vars

(***************************************************************************)
(* The text pipeline.  A call is one step; last holds the call that has    *)
(* just returned until its caller has taken the result.                    *)
(***************************************************************************)
\* The texts given to process.
PTexts ==
  { Str(Chars("Can lah")),
    Str(Chars("ok lah, sure")),
    Str(Chars("hello , world")),
    Str(Chars("What?!? a_b")),
    Str(Chars("  I'm \t Kasun. ")),
    Str(Chars("Kohomada machan!!")),
    Str(Chars("wah liddat ah?")),
    Str(<< >>),
    NoneText }

\* process on every text and every failing statement, evaluated once.
ProcessTable == [t \in PTexts, failAt \in 0..TrySteps |-> process(t, failAt)]

\* A call of process.
Process(text, failAt) ==
  /\ last.op = "none"
  /\ last' = [op |-> "process", text |-> text, failAt |-> failAt,
              res |-> ProcessTable[text, failAt]]
  /\ UNCHANGED <<default_responses, quality_score, templates_file, context_memory, engineVars>>

\* ResponseGenerator.load_model: _initialize_templates merges the
\* templates file into the table when the file exists; a file that cannot
\* be parsed is logged and ignored.
RGLoadModel ==
  /\ last.op = "none"
  /\ default_responses' =
       IF templates_file.state = "ok"
         THEN [i \in DOMAIN default_responses \cup DOMAIN templates_file.obj |->
                 IF i \in DOMAIN templates_file.obj THEN templates_file.obj[i]
                 ELSE default_responses[i]]
       ELSE default_responses
  /\ last' = [op |-> "rg_load_model"]
  /\ UNCHANGED <<quality_score, templates_file, context_memory, engineVars>>

\* The training data given to ResponseGenerator.train.
TrainingBatches ==
  { << Item("greeting", <<"Hello again machan!">>),
       Item("greeting", <<"Hello again machan!">>),
       Item("", <<"Hello?">>),
       Item("riddle", << >>),
       Item("joke", <<"Knock knock machan!">>) >>,
    << Item("self_intro", <<"Hi ", "{user}", "!">>) >>,
    << Item("joke", <<"Knock knock machan!">>), NotADict,
       Item("greeting", <<"Ayubowan again!">>) >> }

\* _save_templates with the outcome how: "ok", or the exception (logged,
\* not raised) of open or of json.dump, which leaves a truncated file.
_save_templates(file, table, how) ==
  CASE how = "ok"   -> SavedFile(0, table)
    [] how = "open" -> file
    [] how = "dump" -> CorruptFile

\* ResponseGenerator.train
RGTrain(training_data, how) ==
  LET st == TrainLoop(default_responses, training_data, Len(training_data))
  IN  /\ last.op = "none"
      /\ default_responses' = st.table
      /\ IF st.exc
           THEN /\ last' = [op |-> "rg_train", raised |-> TRUE,
                            training_data |-> training_data,
                            before |-> default_responses]
                /\ UNCHANGED <<quality_score, templates_file>>
         ELSE /\ templates_file' = _save_templates(templates_file, st.table, how)
              /\ quality_score' = 90
              /\ last' = [op |-> "rg_train", raised |-> FALSE,
                          training_data |-> training_data,
                          before |-> default_responses]
      /\ UNCHANGED <<context_memory, engineVars>>

\* The arguments of generate.
Messages == {Str(Chars("my name is Kasun")), Str(Chars("hello")), NoneText}
GenInputs ==
  (Messages \X {"self_intro"})
    \cup {<<Str(Chars("hello")), "greeting">>, <<Str(Chars("hello")), "joke">>}
Confidences == {50, 70, 90, 95}
Users == {NoUser, User("u1")}
Hours == {9, 22}

\* The draws of a generate call, those that differ in their effect: the
\* draws after the template draw k (tone: the draw of the tone step is
\* below its threshold), and the template draws.
LaterDraws(confidence, user_id) ==
  { d \in [returning : BOOLEAN, r : 1..Len(Modifiers["returning"]),
           hour : Hours, timed : BOOLEAN, t : 1..3,
           tone : BOOLEAN, m : 1..Len(uncertainty_markers)] :
      /\ d.returning => ~user_id.none
      /\ ~d.returning => d.r = 1
      /\ ~d.timed => d.t = 1 /\ d.hour = SetMin(Hours)
      /\ (~d.tone \/ confidence > 70) => d.m = 1 }
DrawsTable == [c \in Confidences, u \in Users |-> LaterDraws(c, u)]
TemplateDraws(responses_of) ==
  1..SetMax({Len(responses_of[i]) : i \in DOMAIN responses_of})

\* A call of generate.  base is what its call of _get_base_response
\* returned.
Generate(message, intent, confidence, user_id) ==
  /\ last.op = "none"
  /\ \E k \in TemplateDraws(default_responses) :
       \E base \in {_get_base_response(default_responses, intent, message, k)} :
           \E d \in DrawsTable[confidence, user_id] :
             last' = [op |-> "generate", message |-> message, intent |-> intent,
                      confidence |-> confidence, user_id |-> user_id,
                      d |-> d, base |-> base,
                      res |-> compose(base.text, intent, confidence, user_id, d)]
  /\ UNCHANGED <<default_responses, quality_score, templates_file, context_memory, engineVars>>

\* The texts given to classify.
CTexts ==
  { Str(Chars("hello there")),
    Str(Chars("Yeah ok")),
    Str(Chars("can lah")),
    Str(Chars("never mind")),
    Str(Chars("got it already")),
    Str(Chars("oya hari")),
    Str(Chars("this is mage")),
    Str(Chars("Kohomada mama")),
    Str(Chars("AIYO so shiok")),
    Str(Chars("mama got chio meh")),
    Str(Chars(" \t ")),
    Str(<< >>),
    NoneText }

\* classify on every text, evaluated once.
ClassifyTable == [t \in CTexts |-> classify(t)]

\* A call of classify.
Classify(text) ==
  /\ last.op = "none"
  /\ last' = [op |-> "classify", text |-> text, res |-> ClassifyTable[text]]
  /\ UNCHANGED <<default_responses, quality_score, templates_file, context_memory, engineVars>>

\* The messages given to _extract_name.
NameMessages ==
  { Str(Chars("my name is Kasun")),
    Str(Chars("I am Kasun!")),
    Str(Chars("hi, im  nimal.")),
    Str(Chars("Mage nama SUNIL perera")),
    Str(Chars("mamai kamal")),
    Str(Chars("tell him saman")),
    Str(Chars("mama Kasun and my name is nimal")),
    Str(Chars("mama Kasun, that is who i am ")),
    Str(Chars("i am ?!")),
    Str(Chars("my name is ")),
    Str(Chars("hello")),
    NoneText }

\* _extract_name on every message, evaluated once.
ExtractTable == [m \in NameMessages |-> _extract_name(m)]

\* A call of _extract_name.
ExtractName(message) ==
  /\ last.op = "none"
  /\ last' = [op |-> "extract_name", message |-> message, res |-> ExtractTable[message]]
  /\ UNCHANGED <<default_responses, quality_score, templates_file, context_memory, engineVars>>

\* The caller has taken the result of the call.
CallReturns ==
  /\ last.op # "none"
  /\ last' = NoHotCall
  /\ UNCHANGED <<default_responses, quality_score, templates_file, context_memory, engineVars>>

PipelineNext ==
  \/ \E text \in PTexts, failAt \in 0..TrySteps : Process(text, failAt)
  \/ RGLoadModel
  \/ \E training_data \in TrainingBatches, how \in {"ok", "open", "dump"} :
       RGTrain(training_data, how)
  \/ \E in \in GenInputs, confidence \in Confidences, user_id \in Users :
       Generate(in[1], in[2], confidence, user_id)
  \/ \E text \in CTexts : Classify(text)
  \/ \E message \in NameMessages : ExtractName(message)
  \/ CallReturns

SpecPipeline == Init /\ [][PipelineNext]_vars

(***************************************************************************)
(* The hot path on one service: the engine is loaded once, the template    *)
(* table is loaded and trained, and process, classify, predict and         *)
(* generate are called one call at a time, each call returning before the  *)
(* next operation starts.                                                   *)
(***************************************************************************)
Quiet == last.op = "none" /\ ~lastPredict.called

HotPathNext ==
  \/ Quiet /\ LoadModel
  \/ Quiet /\ TrainNewVectorizer
  \/ Quiet /\ TrainFitVectorizer
  \/ Quiet /\ TrainSplit
  \/ Quiet /\ TrainFitSave
  \/ Quiet /\ LoadSentenceTransformer
  \/ Quiet /\ RGLoadModel
  \/ Quiet /\ RGTrain(<< Item("self_intro", <<"Hi ", "{user}", "!">>) >>, "ok")
  \/ Quiet /\ \E text \in Texts, context \in Contexts : Predict(text, context)
  \/ PredictDone
  \/ Quiet /\ \E text \in PTexts, failAt \in 0..TrySteps : Process(text, failAt)
  \/ Quiet /\ \E text \in CTexts : Classify(text)
  \/ Quiet /\ \E in \in GenInputs, confidence \in {50, 95} :
                Generate(in[1], in[2], confidence, NoUser)
  \/ CallReturns

SpecHotPath == Init /\ [][HotPathNext]_vars


(***************************************************************************)
(* The claims about the intent engine.                                     *)
(***************************************************************************)
\* The labels a result can carry.
KnownLabels ==
  SeedLabels \cup SeqToSet(_initialize_fallback)
    \cup UNION {SeqToSet(d.labels) : d \in TrainingInputs}

IsAlternative(a) ==
  /\ DOMAIN a = {"intent", "confidence"}
  /\ a.intent \in KnownLabels
  /\ a.confidence \in 0..100

\* What predict could have returned for the last call's arguments on the
\* engine self.
ResultsOn(self) ==
  {predict(self, lastPredict.text, lastPredict.context, proba) :
     proba \in ProbaChoices(Len(self.model.classes))}

\* C1: when a train call raises, the triple (model, vectorizer,
\* intent_labels) is what it was when train was called, and a predict call
\* that follows returns what it would have returned on that triple.
C1_FailedTrainKeepsEngine ==
  trainReport.outcome = "raised" =>
    /\ Self = trainReport.pre
    /\ lastPredict.called => lastPredict.res \in ResultsOn(trainReport.pre)

\* C2: a predict call that runs the statistical strategy while a train call
\* is in flight works with the triple as it was when train was called or
\* with the complete triple of the new run, never with a mix of the two.
C2_PredictSeesOldOrNewTriple ==
  (lastPredict.called /\ lastPredict.inTrain /\ lastPredict.res.strategy = "ml")
    => lastPredict.view \in {"old", "new"}

\* C3: when load_model has read the three files, the model, the vectorizer
\* and the label list it activated were written by the same training run.
C3_LoadedFilesOfOneRun ==
  (loadTrace.stages # << >> /\ loadTrace.stages[1] = "loaded") =>
    /\ loadTrace.runs[1] = loadTrace.runs[2]
    /\ loadTrace.runs[2] = loadTrace.runs[3]

\* C4: whatever state the engine is in, predict returns a result with an
\* intent, a confidence and a list of alternatives, and raises nothing.
C4_PredictAlwaysAnswers ==
  lastPredict.called =>
    /\ ~lastPredict.res.exc
    /\ lastPredict.res.intent \in KnownLabels \cup {"unknown"}
    /\ lastPredict.res.confidence \in Int
    /\ \A i \in 1..Len(lastPredict.res.alternatives) :
         IsAlternative(lastPredict.res.alternatives[i])

\* Reached by C4: the try block of predict raised (the truth test of a
\* classifier that is not fitted yet) and the handler answered.
C4_Witness ==
  /\ lastPredict.called
  /\ lastPredict.res.strategy = "handler"
  /\ model.kind = "RandomForestClassifier" /\ ~model.fitted

\* The stages of the last load_model call, and whether it found both
\* pickle files.
Stages == loadTrace.stages
FoundBoth ==
  /\ loadTrace.files["model"].state # "absent"
  /\ loadTrace.files["vectorizer"].state # "absent"
StageBefore(a, i) == i > 1 /\ Stages[i - 1] \in a
HasStage(s) == \E i \in 1..Len(Stages) : Stages[i] = s

C6_IntentFromLabelSet ==
  lastPredict.called =>
    \/ lastPredict.res.intent = "unknown"
    \/ /\ lastPredict.res.strategy = "ml"
       /\ lastPredict.res.intent \in lastPredict.trained
    \/ /\ lastPredict.res.strategy = "fuzzy"
       /\ lastPredict.res.intent \in SeedLabels

\* C7: the confidence of a result lies in [0, 1].
C7_ConfidenceInUnitInterval ==
  lastPredict.called =>
    (0 <= lastPredict.res.confidence /\ lastPredict.res.confidence <= 100)

\* Reached by C7: the multiplier 1.2 took a confidence above 1.0 and the
\* result carries 1.0.
C7_Witness ==
  /\ lastPredict.called
  /\ lastPredict.res.strategy = "ml"
  /\ lastPredict.context.previous_intent = "greeting"
  /\ lastPredict.res.intent = "self_intro"
  /\ (lastPredict.res.raw * 12) \div 10 > 100
  /\ lastPredict.res.confidence = 100

\* C8: under either strategy, a context with previous_intent greeting and a
\* predicted self_intro give min(1.0, 1.2 * raw), and a context with a
\* user_id and a predicted ask_name give 0.8 * raw.
C8_ContextAppliedToEitherStrategy ==
  (lastPredict.called /\ lastPredict.res.strategy \in {"ml", "fuzzy"}) =>
    /\ (lastPredict.context.previous_intent = "greeting"
          /\ lastPredict.res.intent = "self_intro")
         => lastPredict.res.confidence = Min(100, (lastPredict.res.raw * 12) \div 10)
    /\ (lastPredict.context.user_id # "" /\ lastPredict.res.intent = "ask_name")
         => lastPredict.res.confidence = (lastPredict.res.raw * 8) \div 10

\* C9: the alternatives of a result are at most 3 and their confidences
\* do not increase along the list.
C9_AlternativesCappedAndSorted ==
  lastPredict.called =>
    /\ Len(lastPredict.res.alternatives) <= 3
    /\ \A i \in 1..(Len(lastPredict.res.alternatives) - 1) :
         lastPredict.res.alternatives[i].confidence
           >= lastPredict.res.alternatives[i + 1].confidence

\* Reached by C9: a result with three alternatives of three confidences.
C9_Witness ==
  /\ lastPredict.called
  /\ Len(lastPredict.res.alternatives) = 3
  /\ lastPredict.res.alternatives[1].confidence > lastPredict.res.alternatives[2].confidence
  /\ lastPredict.res.alternatives[2].confidence > lastPredict.res.alternatives[3].confidence

\* C10: no alternative of a result carries the intent of the result.
C10_AlternativesExcludeTopPick ==
  lastPredict.called =>
    \A i \in 1..Len(lastPredict.res.alternatives) :
      lastPredict.res.alternatives[i].intent # lastPredict.res.intent

\* The texts that are strings, and for each of them the state of the scan
\* of _rule_based_predict after its loops.
StringTexts == {t \in Texts : ~t.none}
ScanTable ==
  [t \in StringTexts |->
     ScanIntents(_load_default_intents, t.s, Len(_load_default_intents))]

\* The greatest similarity of a text to a phrase of the catalog, and the
\* first intent, in catalog order, that lists a phrase of that similarity.
BestScoreTable ==
  [t \in StringTexts |->
     SetMax({Score(t.s, CatalogPairs[i].phrase) : i \in 1..Len(CatalogPairs)})]
BestIntentTable ==
  [t \in StringTexts |->
     CatalogPairs[SetMin({i \in 1..Len(CatalogPairs) :
        Score(t.s, CatalogPairs[i].phrase) = BestScoreTable[t]})].intent]

IsUnknown(res) ==
  res.intent = "unknown" /\ res.confidence = 0 /\ res.alternatives = << >>

\* C11: under the fuzzy strategy the best match is returned, with its
\* score, only when the score is above 0.6; when the best score is 0.6 or
\* less the result is unknown, 0.0 and no alternatives.
C11_FuzzyAcceptsAbove06 ==
  (lastPredict.called /\ lastPredict.res.strategy = "fuzzy") =>
    IF lastPredict.text.none THEN IsUnknown(lastPredict.res)
    ELSE IF BestScoreTable[lastPredict.text] > 60
      THEN /\ lastPredict.res.intent = BestIntentTable[lastPredict.text]
           /\ lastPredict.res.confidence = BestScoreTable[lastPredict.text]
    ELSE IsUnknown(lastPredict.res)

\* Reached by C11: the best score is 0.6 or less, the scan collected an
\* alternative above 0.5, and the result is the unknown one.
C11_Witness ==
  /\ lastPredict.called
  /\ lastPredict.res.strategy = "fuzzy"
  /\ ~lastPredict.text.none
  /\ BestScoreTable[lastPredict.text] \in 51..60
  /\ \E i \in 1..Len(ScanTable[lastPredict.text].alternatives) :
       ScanTable[lastPredict.text].alternatives[i].confidence > 50
  /\ IsUnknown(lastPredict.res)

\* The empty string and a text made of punctuation only.
BlankTexts == {Str(<< >>), Str(<<"?","!">>)}

\* C12: for the empty string and for a text made only of punctuation,
\* predict returns unknown, 0.0 and no alternatives in every engine state.
C12_BlankTextIsUnknown ==
  (lastPredict.called /\ lastPredict.text \in BlankTexts) =>
    IsUnknown(lastPredict.res)

\* C13: an input equal to a seed phrase of the catalog is classified as the
\* intent that lists the phrase, with confidence at least 0.6.
C13_SeedPhraseGivesItsIntent ==
  (lastPredict.called /\ ~lastPredict.text.none) =>
    \A i \in 1..Len(CatalogPairs) :
      CatalogPairs[i].phrase = lastPredict.text.s =>
        /\ lastPredict.res.intent = CatalogPairs[i].intent
        /\ lastPredict.res.confidence >= 60

(***************************************************************************)
(* The claims about the text pipeline.                                     *)
(***************************************************************************)
\* C14: no whitespace-delimited token of the canonical output of process
\* is one of the discourse particles lah, lor, meh, sia, leh, hor, ah.
C14_NoParticleInCanonical ==
  (last.op = "process" /\ last.failAt = 0 /\ ~last.res.exc) =>
    \A k \in 1..Len(Split(last.res.text)) :
      Split(last.res.text)[k] \notin Particles

\* C15: process never raises, and when a statement of its pipeline fails
\* it returns the lowercased and trimmed original input.
C15_ProcessFailsSoft ==
  last.op = "process" =>
    /\ ~last.res.exc
    /\ last.failAt # 0 => last.res.text = Strip(Lower(last.text.s))

\* The base texts the table offers for an intent and a message: the
\* templates of the intent as they are and with the extracted name in
\* their slot, or the templates of the unknown set for an intent that is
\* not catalogued.
BaseTexts(responses_of, intent, message) ==
  IF intent \in DOMAIN responses_of
    THEN {TextOf(responses_of[intent][k]) : k \in 1..Len(responses_of[intent])}
         \cup {FormatFrom(responses_of[intent][k], _extract_name(message).name, 1) :
                 k \in 1..Len(responses_of[intent])}
  ELSE {TextOf(responses_of["unknown"][k]) : k \in 1..Len(responses_of["unknown"])}

\* C16: the response of a template_based result is a template of the
\* intent (of the unknown set for an intent that is not catalogued) with
\* the modifiers of the call applied; no other base text is returned.
C16_ResponseFromTemplateSet ==
  (last.op = "generate" /\ last.res.strategy = "template_based") =>
    \E base \in BaseTexts(default_responses, last.intent, last.message) :
      last.res.response
        = compose(base, last.intent, last.confidence, last.user_id, last.d).response

\* The message "my name is Kasun".
KasunMessage == Str(Chars("my name is Kasun"))

\* C17: generate with intent self_intro and message "my name is Kasun"
\* returns a response that contains "Kasun".
C17_ResponseContainsKasun ==
  (last.op = "generate" /\ last.intent = "self_intro" /\ last.message = KasunMessage) =>
    /\ _extract_name(last.message) = Name(Chars("Kasun"))
    /\ Contains(last.res.response, Chars("Kasun"))

\* C18: the response of generate never contains the placeholder "{name}".
C18_NoUnfilledSlot ==
  last.op = "generate" => ~Contains(last.res.response, Chars("{name}"))

\* C19: when a step of the composition fails, the result of generate is
\* the apology with strategy fallback, confidence 0.5 and personalized
\* false.
C19_FailureGivesApology ==
  (last.op = "generate" /\ last.base.failed) => last.res = FallbackResult

\* The score in which a category counts once: its weight when at least one
\* of its markers occurs in the text.
RECURSIVE OncePerCategoryFrom(_, _)
OncePerCategoryFrom(text, k) ==
  IF k > Len(singlish_markers) THEN 0
  ELSE (IF MarkersIn(text, singlish_markers[k]) # {}
          THEN singlish_markers[k].weight ELSE 0)
       + OncePerCategoryFrom(text, k + 1)

\* C20: the Singlish score of a classified text is the sum of the weights
\* of the categories that have at least one marker in the lowercased text,
\* each category counted once, clamped to 1.0.
C20_CategoryCountsOnce ==
  (last.op = "classify" /\ ~last.text.none) =>
    last.res.singlish_score = Min(OncePerCategoryFrom(Lower(last.text.s), 1), 100)

\* A hot-path call returns in this step.
HotCallReturns ==
  \/ last.op = "none" /\ last'.op \in {"process", "classify", "generate"}
  \/ ~lastPredict.called /\ lastPredict'.called

\* What the hot path may not write: the template table, the context memory
\* and the quality score of the response generator, the templates file,
\* the triple and the sentence transformer of the engine, the artifact files.
ServiceState ==
  <<default_responses, context_memory, quality_score, templates_file,
    model, vectorizer, intent_labels, sentence_transformer, disk>>

\* C21: a call of process, classify, predict or generate, whether it
\* succeeds or takes an error path, leaves the template table, the context
\* memory and the triple (model, vectorizer, intent_labels) as they were.
C21_HotPathLeavesStateAlone ==
  [][HotCallReturns => UNCHANGED ServiceState]_vars

\* C21 witness: generate has returned from its error path (the base
\* response failed) on a trained template table, with the engine loaded.
C21_Witness ==
  /\ last.op = "generate"
  /\ last.base.failed
  /\ default_responses # DictOf(DefaultResponses)
  /\ model.fitted

IsPunctuation(c) == c \notin Letters \cup Digits /\ ~IsSpace(c)

\* C23: the output of a process call whose pipeline ran to its end has no
\* punctuation character other than ? and !, and no two adjacent
\* characters of ? and !.
C23_OnlySingleMarksLeft ==
  (last.op = "process" /\ last.failAt = 0 /\ ~last.res.exc) =>
    /\ \A i \in 1..Len(last.res.text) :
         IsPunctuation(last.res.text[i]) => last.res.text[i] \in {"?", "!"}
    /\ \A i \in 1..(Len(last.res.text) - 1) :
         ~(last.res.text[i] \in {"?", "!"} /\ last.res.text[i + 1] \in {"?", "!"})

\* C28: the output of a process call whose pipeline ran to its end has no
\* whitespace at either end and no two consecutive spaces.
C28_WhitespaceNormalized ==
  (last.op = "process" /\ last.failAt = 0 /\ ~last.res.exc) =>
    /\ Strip(last.res.text) = last.res.text
    /\ \A i \in 1..(Len(last.res.text) - 1) :
         ~(IsSpace(last.res.text[i]) /\ IsSpace(last.res.text[i + 1]))

\* The patterns that occur in the lowercased message.
Occurring(message) ==
  {p \in 1..Len(patterns) : Contains(Lower(message), Chars(patterns[p]))}

\* The words after the first occurrence of pattern p in message.
WordsAfter(message, p) ==
  Split(SubSeq(message,
               Find(Lower(message), Chars(patterns[p])) + Len(patterns[p]),
               Len(message)))

\* The name pattern p gives: the first word after it, stripped of
\* surrounding . , ! ? and capitalized; none without a word after it.
NameAfter(message, p) ==
  IF WordsAfter(message, p) = << >> THEN NoName
  ELSE Name(Capitalize(StripMarks(WordsAfter(message, p)[1])))

\* The patterns that occur and have a word after their first occurrence.
Usable(message) == {p \in Occurring(message) : WordsAfter(message, p) # << >>}

\* C24, as stated: the name is the one given by the first pattern of the
\* list that occurs in the lowercased message; a later pattern is never
\* used when an earlier one occurs.
C24_FirstOccurringPatternWins ==
  (last.op = "extract_name" /\ ~last.message.none) =>
    last.res = IF Occurring(last.message.s) = {} THEN NoName
               ELSE NameAfter(last.message.s, SetMin(Occurring(last.message.s)))

\* C24, amended: the name is the one given by the first pattern of the
\* list that occurs in the lowercased message with a word after its first
\* occurrence; without such a pattern there is no name.
C24_FirstUsablePatternWins ==
  (last.op = "extract_name" /\ ~last.message.none) =>
    last.res = IF Usable(last.message.s) = {} THEN NoName
               ELSE NameAfter(last.message.s, SetMin(Usable(last.message.s)))

\* C24 witness: a call on a message in which two patterns occur with a
\* word after them, the one earlier in the list later in the message.
C24_Witness ==
  /\ last.op = "extract_name"
  /\ ~last.message.none
  /\ last.res.found
  /\ \E p, q \in Usable(last.message.s) :
       /\ p < q
       /\ Find(Lower(last.message.s), Chars(patterns[q]))
            < Find(Lower(last.message.s), Chars(patterns[p]))

\* The response the tone step of the last generate call was given.
BeforeTone == final_response(last.base.text, last.user_id, last.d)

\* The response with an uncertainty marker in front and its body lowercased.
Hedged(response) ==
  {Chars(uncertainty_markers[m]) \o <<" ">> \o Lower(response) :
     m \in 1..Len(uncertainty_markers)}

\* C25: the tone step of generate changes the response only by prefixing
\* an uncertainty marker to the lowercased response, which it does only
\* for a confidence below 0.7, or by appending the celebratory marker,
\* which it does only for a confidence above 0.9; from 0.7 to 0.9 the
\* response is unchanged.
C25_ToneGuardedByConfidence ==
  last.op = "generate" =>
    \/ last.res.response = BeforeTone
    \/ last.confidence < 70 /\ last.res.response \in Hedged(BeforeTone)
    \/ last.confidence > 90 /\ last.res.response = BeforeTone \o <<" ", "U+1F389">>

\* C25 witness: a generate call with confidence exactly 0.7 whose draw of
\* the tone step is below the threshold.
C25_Witness ==
  /\ last.op = "generate"
  /\ last.confidence = 70
  /\ last.d.tone
  /\ last.res.response = BeforeTone

\* C26: when a predict call made with no train call in flight has
\* answered on the statistical path, intent_labels is the label list of
\* the training run that fitted the model.
C26_LabelsOfTheModelsRun ==
  (lastPredict.called /\ ~lastPredict.inTrain /\ lastPredict.res.strategy = "ml") =>
    intent_labels = model.classes

\* C27: no alternative of a predict result has a confidence greater than
\* the confidence of the result.
C27_NoAlternativeAboveTopPick ==
  lastPredict.called =>
    \A k \in 1..Len(lastPredict.res.alternatives) :
      lastPredict.res.alternatives[k].confidence <= lastPredict.res.confidence

\* The table new keeps every intent of old, and every list of old is the
\* beginning of its list in new.
Grows(old, new) ==
  /\ DOMAIN old \subseteq DOMAIN new
  /\ \A i \in DOMAIN old :
       /\ Len(old[i]) <= Len(new[i])
       /\ SubSeq(new[i], 1, Len(old[i])) = old[i]

\* No template added to old is listed twice in new.
AddsNoDuplicate(old, new) ==
  \A i \in DOMAIN new :
    \A j \in 1..Len(new[i]) :
      (i \in DOMAIN old => j > Len(old[i])) =>
        \A h \in 1..Len(new[i]) : new[i][h] = new[i][j] => h = j

\* C29: a train call keeps every intent and every template in its place,
\* adds no response that is already listed, and leaves a table that the
\* same call, made again, does not change.
C29_TrainGrowsAndIsIdempotent ==
  last.op = "rg_train" =>
    /\ Grows(last.before, default_responses)
    /\ AddsNoDuplicate(last.before, default_responses)
    /\ TrainLoop(default_responses, last.training_data,
                 Len(last.training_data)).table = default_responses

\* C29 witness: train has been called a second time with data that names
\* one response twice and a new intent, and has returned.
C29_Witness ==
  /\ last.op = "rg_train"
  /\ ~last.raised
  /\ "joke" \in DOMAIN last.before
  /\ \E j, h \in 1..Len(last.training_data) :
       j # h /\ last.training_data[j] = last.training_data[h]
  /\ last.before = default_responses

====
